---- MODULE Spec2Model ----
(***************************************************************************)
(* Model of the ingestion-and-deduplication engine of                      *)
(* ai-meeting-notes-agent.                                                 *)
(*                                                                         *)
(* Spec models the local loop of drive_watcher.py: FileTracker (the        *)
(* processed ledger and its JSON file), is_file_stable, find_new_files and *)
(* run_watcher, together with the environment they run in (the sync client *)
(* writing files into the inbox, signals, process crashes and restarts).   *)
(*                                                                         *)
(* SpecZoom models the remote loop of server/src/zoom: zoom_poll_loop,     *)
(* ZoomClient (load_token, _ensure_token, refresh_token, the requests),    *)
(* the InsForgeDB tables zoom_tokens and zoom_processed, BotState, and the *)
(* environment (the clock, Zoom, the OAuth callback and disconnect         *)
(* handlers, cancellation of the poller task).                             *)
(*                                                                         *)
(* SpecFair and SpecZoomFair are the two loops under weak fairness of      *)
(* their own steps.  Four further specifications apply one function each   *)
(* to every input within the bounds: SpecListing (ZoomClient.              *)
(* list_recordings over a window of more than one page), SpecTracker       *)
(* (FileTracker over any contents of its store), SpecErrors (BotState.     *)
(* record_error) and SpecMirror (the upload and download passes of         *)
(* telegram_bot.py).                                                       *)
(*                                                                         *)
(* SpecSave applies _save_file of telegram_bot.py to every file name and   *)
(* body, SpecDry is run_watcher called with dry_run over every inbox and   *)
(* tracker file, and SpecDirs is the poller writing two meetings of one    *)
(* listing into their directories.  SpecZoomLossy is SpecZoom with the     *)
(* request of mark_processed allowed to fail after the row was written.    *)
(* SpecProducts is the local loop over an inbox of named files, with the   *)
(* files the processor writes next to its input.                           *)
(***************************************************************************)
EXTENDS Integers, Sequences, FiniteSets, TLC

(***************************************************************************)
(* Bounds of the model.                                                    *)
(***************************************************************************)
\* Largest file size the sync client writes (sizes are 0..MaxSize).
MaxSize == 2
\* How many times the process is started again after it ended.
MaxRestarts == 1
\* How many times the clock advances.
MaxTicks == 2
\* How many meetings more than one page of the listing Zoom may hold.
MaxExtra == 2
\* How many times record_error is called on a list of errors.
MaxCalls == 3
\* Largest number of bytes of a file or an object of a mirror pass.
MaxBody == 1
\* Largest number of characters of the topic of a meeting.
MaxTopic == 2

(***************************************************************************)
(* The inbox.  Directory entries are numbered in the lexical order of      *)
(* their paths, which is the order sorted(inbox.rglob('*')) yields them:   *)
(*   1  a.MP4                  regular file                                *)
(*   2  b.mp4                  regular file                                *)
(*   3  c.mp4                  symbolic link to a.MP4                      *)
(*   4  processed_files.json   the tracker file (default tracker path)     *)
(* An identity is the canonical path of a regular media file: 1 or 2.      *)
(***************************************************************************)
Entries == <<1, 2, 3, 4>>

Identities == {1, 2}

LinkEntry == 3

TrackerEntry == 4

\* Path(filepath).suffix of each entry.
Suffix(e) == IF e = 1 THEN ".MP4" ELSE IF e = TrackerEntry THEN ".json" ELSE ".mp4"

\* str.lower() on the suffixes that occur.
Lower(s) == IF s = ".MP4" THEN ".mp4" ELSE s

SUPPORTED_EXTENSIONS ==
    {".mp4", ".avi", ".mov", ".mkv", ".webm", ".mp3", ".wav", ".m4a", ".aac", ".ogg"}

\* filepath.resolve(): the symbolic link resolves to the file it points to.
Resolve(e) == IF e = LinkEntry THEN 1 ELSE e

\* The result of a failed os.path.getsize, and the size of a missing file.
Missing == -1

Sizes == 0..MaxSize

(***************************************************************************)
(* State.                                                                  *)
(***************************************************************************)
VARIABLES
    \* environment: the inbox directory and the tracker file
    inbox,       \* TRUE when the inbox directory exists
    size,        \* size[i]: byte size of regular file i, Missing when absent
    link,        \* TRUE when the symbolic link c.mp4 exists
    disk,        \* content of the tracker file processed_files.json
    \* the process
    pc,          \* position of run_watcher
    processed,   \* FileTracker.processed: identity -> [success]
    running,     \* the flag of run_watcher cleared by handle_signal
    new_files,   \* the list find_new_files returned for this cycle
    idx,         \* position of the for loop in new_files
    size1,       \* first size sample of is_file_stable
    ret,         \* outcome of the process_file call for the current item
    restarts,    \* number of process starts after the first
    \* history
    completed,   \* identities for which the processor has returned True
    skipped,     \* identities skipped as unstable in the current cycle
    added,       \* a file appeared in the inbox since the last scan
    prevPass,    \* how the last finished pass ended: "none", "clean" or "skips"
    thisPass     \* what preceded the current pass: "first", "changed", "quiet"
                 \* or "quiet_clean"

envVars == <<inbox, size, link, disk>>

procVars == <<pc, processed, running, new_files, idx, size1, ret, restarts>>

histVars == <<completed, skipped, added, prevPass, thisPass>>

(***************************************************************************)
(* State of the remote loop: zoom_poll_loop of src/server/src/zoom/        *)
(* poller.py with its ZoomClient and InsForgeDB, and the services they     *)
(* talk to.                                                                *)
(***************************************************************************)
VARIABLES
    \* environment: the clock, the database tables, Zoom, the data directory
    now,             \* time.time()
    zoom_tokens,     \* the row of table zoom_tokens, NoToken when there is none
    zoom_processed,  \* meeting_uuid column of table zoom_processed
    recordings,      \* recordings[u]: what Zoom holds of meeting u
    artifacts,       \* artifacts[u]: how many files of meeting u were written
    save_file_fn,    \* TRUE when zoom_poll_loop was given a mirror function
    \* ZoomClient
    access_token,    \* ZoomClient._access_token
    expires_at,      \* ZoomClient._expires_at
    \* zoom_poll_loop and the calls it awaits
    zpc,             \* position of the poller task
    after,           \* the request the running _ensure_token call precedes
    token,           \* local token of refresh_token: the row it read
    data,            \* local data of refresh_token: the response of the exchange
    meetings,        \* the list of meeting uuids returned by list_recordings
    processed_uuids, \* local processed: the set get_processed_uuids returned
    midx,            \* position of the for loop in meetings
    new_count,       \* local new_count
    exc,             \* the exception in flight
    \* bot_state
    recent_errors,         \* BotState.recent_errors (the messages)
    zoom_transcript_count, \* BotState.zoom_transcript_count
    zoom_last_poll,        \* BotState.zoom_last_poll is set (the instant is not kept)
    last_activity,         \* BotState.last_activity is set (the instant is not kept)
    \* history
    loaded,          \* what load_token returned in this cycle
    ops,             \* what this cycle has done: "marked", "record_error"
    rejected,        \* the token exchange answered non-200 in this cycle
    stopped_at       \* where the poller task was when it was cancelled

zoomEnvVars == <<now, zoom_tokens, zoom_processed, recordings, artifacts, save_file_fn>>

clientVars == <<access_token, expires_at>>

pollVars == <<zpc, after, token, data, meetings, processed_uuids, midx, new_count, exc>>

botVars == <<recent_errors, zoom_transcript_count, zoom_last_poll, last_activity>>

zoomHistVars == <<loaded, ops, rejected, stopped_at>>

zoomVars == <<zoomEnvVars, clientVars, pollVars, botVars, zoomHistVars>>

localVars == <<envVars, procVars, histVars>>

(***************************************************************************)
(* State of the functions that are checked on their own: FileTracker over  *)
(* any content of its file, the listing request of                         *)
(* ZoomClient.list_recordings, BotState.record_error, and the mirror       *)
(* functions of src/telegram_bot.py with the data directory and the bucket *)
(* they work on.                                                           *)
(***************************************************************************)
VARIABLES
    file_tracker,    \* self.processed of a FileTracker built over any store
    answer,          \* how the last call on that FileTracker ended
    held,            \* how many meetings of the window Zoom holds
    response,        \* the answer to the listing request, NoData before it
    calls,           \* the messages record_error was called with, in call order
    local_files,     \* local_files[rel]: the file at local_dir / rel
    s3_objects,      \* s3_objects[key]: the object whose key is prefix + key
    transferred      \* the last pass and the keys it uploaded or downloaded

trackerVars == <<file_tracker, answer>>

listVars == <<held, response>>

mirrorVars == <<local_files, s3_objects, transferred>>

sideVars == <<trackerVars, listVars, calls, mirrorVars>>

vars == <<inbox, size, link, disk, pc, processed, running, new_files, idx, size1,
          ret, restarts, completed, skipped, added, prevPass, thisPass, zoomVars,
          sideVars>>

(***************************************************************************)
(* The tracker file.                                                       *)
(***************************************************************************)
Absent == [kind |-> "absent"]

\* An empty or cut-off file: every proper prefix of json.dumps(dict) is
\* rejected by json.loads.
Corrupt == [kind |-> "corrupt"]

EmptyLedger == [i \in {} |-> [success |-> FALSE]]

Range(s) == {s[k] : k \in DOMAIN s}

(***************************************************************************)
(* FileTracker.                                                            *)
(***************************************************************************)
\* json.dumps(self.processed) as written by write_text.
Dumps(p) == [kind |-> "json", data |-> p]

\* FileTracker.__init__ and _load: the mapping a new tracker starts with.
Load(d) == IF d.kind = "json" THEN d.data ELSE EmptyLedger

\* Variant: only a success entry counts as processed.
IsProcessedSuccessOnly(tracker, filepath) ==
    filepath \in DOMAIN tracker /\ tracker[filepath].success

IsProcessed(tracker, filepath) == filepath \in DOMAIN tracker

\* self.processed[filepath] = {'timestamp': ..., 'success': success}
SetEntry(tracker, filepath, success) ==
    [i \in DOMAIN tracker \cup {filepath} |->
        IF i = filepath THEN [success |-> success] ELSE tracker[i]]

(***************************************************************************)
(* Scanning and probing.                                                   *)
(***************************************************************************)
IsSupportedFile(e) == Lower(Suffix(e)) \in SUPPORTED_EXTENSIONS

\* filepath.is_file(): follows the symbolic link.
IsFile(e) ==
    /\ inbox
    /\ IF e \in Identities THEN size[e] # Missing
       ELSE IF e = LinkEntry THEN link /\ size[Resolve(e)] # Missing
       ELSE disk.kind # "absent"

IsCandidate(tracker, e) ==
    IsFile(e) /\ IsSupportedFile(e) /\ ~IsProcessed(tracker, Resolve(e))

\* Variant: the scan does not consult the tracker.
FindNewFilesUnfiltered(tracker) ==
    IF ~inbox THEN <<>>
    ELSE LET sel == SelectSeq(Entries, LAMBDA e : IsFile(e) /\ IsSupportedFile(e))
         IN  [k \in 1..Len(sel) |-> Resolve(sel[k])]

FindNewFiles(tracker) ==
    IF ~inbox THEN <<>>
    ELSE LET sel == SelectSeq(Entries, LAMBDA e : IsCandidate(tracker, e))
         IN  [k \in 1..Len(sel) |-> Resolve(sel[k])]

\* os.path.getsize: Missing stands for the OSError of a file that is gone.
GetSize(filepath) == size[filepath]

\* Variant: the probe does not reject an empty file.
IsFileStableNoEmptyCheck(s1, s2) ==
    IF s1 = Missing \/ s2 = Missing THEN FALSE ELSE s1 = s2

\* is_file_stable, from its two size samples.
IsFileStable(s1, s2) ==
    IF s1 = Missing \/ s2 = Missing THEN FALSE ELSE s1 = s2 /\ s2 > 0

(***************************************************************************)
(* The remote side: time, tokens, meetings.                                *)
(***************************************************************************)
\* _ensure_token refreshes a token that expires within this many seconds.
REFRESH_SKEW == 60

\* BotState.record_error keeps this many of the latest errors.
MAX_ERRORS == 20

\* The clock advances in steps of the skew.  time.time() is a float and is
\* never a whole second: the clock reads Frac, Frac + Tick, ...
Tick == REFRESH_SKEW

Frac == REFRESH_SKEW \div 2

MaxTime == Frac + MaxTicks * Tick

\* The sleep between two cycles (300 s by default) is one step of the clock.
poll_interval == Tick

\* int(time.time())
IntTime(t) == t - (t % Tick)

\* The expires_in values the token endpoint answers with.
ExpiresIn == {2 * REFRESH_SKEW}

\* An access token is named by the instant Zoom stops accepting it; 0 is the
\* empty string.  Refresh tokens are 1 and 2; 0 is the empty string, and in a
\* response the missing key.
NoAccess == 0

NoRefresh == 0

Rotate(r) == IF r = 1 THEN 2 ELSE 1

NoToken == [kind |-> "none"]

TokenRow(a, r, e) ==
    [kind |-> "row", access_token |-> a, refresh_token |-> r, expires_at |-> e]

NoData == [kind |-> "none"]

\* Zoom answers a request carrying access token a with 401 unless this holds.
Accepted(a) == a # NoAccess /\ now < a

\* The uuids of the two meetings of the account; Zoom lists them in this
\* order.
Uuids == {1, 2}

NoRequest == "none"

\* The remote loop before its first cycle, all but its position and the
\* errors recorded.
ZoomRest ==
    /\ now = Frac
    /\ zoom_tokens = NoToken
    /\ zoom_processed = {}
    /\ recordings = [u \in Uuids |-> "none"]
    /\ artifacts = [u \in Uuids |-> 0]
    /\ access_token = NoAccess
    /\ expires_at = 0
    /\ after = NoRequest
    /\ token = NoToken
    /\ data = NoData
    /\ meetings = <<>>
    /\ processed_uuids = {}
    /\ midx = 1
    /\ new_count = 0
    /\ exc = "none"
    /\ zoom_transcript_count = 0
    /\ zoom_last_poll = FALSE
    /\ last_activity = FALSE
    /\ loaded = "unknown"
    /\ ops = {}
    /\ rejected = FALSE
    /\ stopped_at = "none"

\* The remote loop before its first cycle, all but its position.
ZoomFields == ZoomRest /\ recent_errors = <<>>

\* The remote loop is not started.
ZoomIdle ==
    /\ ZoomFields
    /\ save_file_fn = FALSE
    /\ zpc = "off"

\* The relative paths of the files under the local directory of a pass.
Names == {<<"a">>, <<"b">>}

\* The keys under the prefix of a pass, each without the prefix, a string
\* being the sequence of its characters, in the order list_objects_v2 lists
\* them (the binary order of the keys).  With the prefix "bot/" they are
\* "bot/", "bot//a", "bot/a" and "bot/b".
Listed == << <<>>, <<"/", "a">>, <<"a">>, <<"b">> >>

ObjectKeys == {Listed[i] : i \in 1..Len(Listed)}

\* No pass was made.
NoPass == [pass |-> "none", keys |-> {}]

\* A file or an object is its bytes; one that does not exist has none.
NoFile == [exists |-> FALSE, body |-> <<>>]

File(body) == [exists |-> TRUE, body |-> body]

\* No FileTracker is built yet.
NotBuilt == [kind |-> "none"]

\* The functions checked on their own are not in use.
TrackerIdle == file_tracker = NotBuilt /\ answer = "none"

ListIdle == held = 0 /\ response = NoData

ErrorsIdle == calls = <<>>

MirrorIdle ==
    /\ local_files = [rel \in Names |-> NoFile]
    /\ s3_objects = [key \in ObjectKeys |-> NoFile]
    /\ transferred = NoPass

SideIdle == TrackerIdle /\ ListIdle /\ ErrorsIdle /\ MirrorIdle

(***************************************************************************)
(* Initial state: the process has just built its FileTracker and entered   *)
(* run_watcher; the inbox does not exist yet.                              *)
(***************************************************************************)
LocalBase ==
    /\ inbox = FALSE
    /\ size = [i \in Identities |-> Missing]
    /\ link = FALSE
    /\ running = TRUE
    /\ new_files = <<>>
    /\ idx = 1
    /\ size1 = Missing
    /\ ret = "none"
    /\ restarts = 0
    /\ completed = {}
    /\ skipped = {}
    /\ added = FALSE
    /\ prevPass = "none"
    /\ thisPass = "first"

LocalRest == LocalBase /\ pc = "while" /\ processed = Load(Absent)

LocalInit == LocalRest /\ disk = Absent

Init == LocalInit /\ ZoomIdle /\ SideIdle

Alive == pc \notin {"stopped", "raised", "dead", "dead_dirty"}

cur == new_files[idx]

(***************************************************************************)
(* Environment.                                                            *)
(***************************************************************************)
EnvMkdir ==
    /\ ~inbox
    /\ inbox' = TRUE
    /\ UNCHANGED <<size, link, disk, procVars, histVars>>
    /\ UNCHANGED <<zoomVars, sideVars>>

\* The sync client creates a file (size 0) or appends to it.
EnvWrite(i) ==
    /\ inbox
    /\ size[i] < MaxSize
    /\ size' = [size EXCEPT ![i] = size[i] + 1]
    /\ added' = (added \/ size[i] = Missing)
    /\ UNCHANGED <<inbox, link, disk, procVars, completed, skipped, prevPass, thisPass>>
    /\ UNCHANGED <<zoomVars, sideVars>>

EnvRemove(i) ==
    /\ size[i] # Missing
    /\ size' = [size EXCEPT ![i] = Missing]
    /\ UNCHANGED <<inbox, link, disk, procVars, histVars>>
    /\ UNCHANGED <<zoomVars, sideVars>>

EnvLink ==
    /\ inbox
    /\ ~link
    /\ link' = TRUE
    /\ added' = TRUE
    /\ UNCHANGED <<inbox, size, disk, procVars, completed, skipped, prevPass, thisPass>>
    /\ UNCHANGED <<zoomVars, sideVars>>

\* SIGTERM or SIGINT: handle_signal.
HandleSignal ==
    /\ Alive
    /\ running
    /\ running' = FALSE
    /\ UNCHANGED <<envVars, pc, processed, new_files, idx, size1, ret, restarts, histVars>>
    /\ UNCHANGED <<zoomVars, sideVars>>

(***************************************************************************)
(* run_watcher.  One action per step of the loop; steps are split where    *)
(* the code waits or calls out (the stability sleep, the processor, the    *)
(* file write), because the environment, a signal or a crash can come in   *)
(* between.                                                                *)
(***************************************************************************)
\* while running: new_files = find_new_files(inbox_dir, tracker)
Scan ==
    /\ pc = "while"
    /\ running
    /\ new_files' = FindNewFiles(processed)
    /\ idx' = 1
    /\ pc' = "for"
    /\ skipped' = {}
    /\ added' = FALSE
    /\ thisPass' = IF prevPass = "none" THEN "first"
                   ELSE IF added THEN "changed"
                   ELSE IF prevPass = "clean" THEN "quiet_clean"
                   ELSE "quiet"
    /\ prevPass' = "none"
    /\ UNCHANGED <<envVars, processed, running, size1, ret, restarts, completed>>
    /\ UNCHANGED <<zoomVars, sideVars>>

\* while running: the flag is cleared, run_watcher returns.
LoopExit ==
    /\ pc = "while"
    /\ ~running
    /\ pc' = "stopped"
    /\ UNCHANGED <<envVars, processed, running, new_files, idx, size1, ret, restarts,
                   histVars>>
    /\ UNCHANGED <<zoomVars, sideVars>>

\* The for loop is exhausted: if running, time.sleep(POLL_INTERVAL); back to while.
\* new_files and the loop position are dead from here to the next scan, which
\* overwrites them: they are cleared.
ForEnd ==
    /\ pc = "for"
    /\ idx > Len(new_files)
    /\ pc' = "while"
    /\ new_files' = <<>>
    /\ idx' = 1
    /\ prevPass' = IF skipped = {} THEN "clean" ELSE "skips"
    /\ skipped' = {}
    /\ UNCHANGED <<envVars, processed, running, size1, ret, restarts, completed, added,
                   thisPass>>
    /\ UNCHANGED <<zoomVars, sideVars>>

\* if not running: break
ForBreak ==
    /\ pc = "for"
    /\ idx <= Len(new_files)
    /\ ~running
    /\ pc' = "while"
    /\ new_files' = <<>>
    /\ idx' = 1
    /\ skipped' = {}
    /\ UNCHANGED <<envVars, processed, running, size1, ret, restarts, completed, added,
                   prevPass, thisPass>>
    /\ UNCHANGED <<zoomVars, sideVars>>

\* is_file_stable, first sample.  An OSError makes it return False at once:
\* the file is skipped.
StableFirst ==
    /\ pc = "for"
    /\ idx <= Len(new_files)
    /\ running
    /\ IF GetSize(cur) = Missing
       THEN /\ pc' = "for"
            /\ idx' = idx + 1
            /\ size1' = Missing
            /\ skipped' = skipped \cup {cur}
       ELSE /\ pc' = "stable_wait"
            /\ size1' = GetSize(cur)
            /\ UNCHANGED <<idx, skipped>>
    /\ UNCHANGED <<envVars, processed, running, new_files, ret, restarts, completed,
                   added, prevPass, thisPass>>
    /\ UNCHANGED <<zoomVars, sideVars>>

\* is_file_stable, after time.sleep(wait_seconds): second sample and verdict.
StableSecond ==
    /\ pc = "stable_wait"
    /\ IF IsFileStable(size1, GetSize(cur))
       THEN /\ pc' = "process"
            /\ UNCHANGED <<idx, skipped>>
       ELSE /\ pc' = "for"
            /\ idx' = idx + 1
            /\ skipped' = skipped \cup {cur}
    /\ size1' = Missing
    /\ UNCHANGED <<envVars, processed, running, new_files, ret, restarts, completed,
                   added, prevPass, thisPass>>
    /\ UNCHANGED <<zoomVars, sideVars>>

\* success = process_file(filepath): returns True or False, or raises.
ProcessFile ==
    /\ pc = "process"
    /\ \E outcome \in {"true", "false", "raise"} :
          /\ ret' = outcome
          /\ completed' = IF outcome = "true" THEN completed \cup {cur} ELSE completed
          /\ pc' = IF outcome = "raise" THEN "mark_except" ELSE "mark_try"
    /\ UNCHANGED <<envVars, processed, running, new_files, idx, size1, restarts,
                   skipped, added, prevPass, thisPass>>
    /\ UNCHANGED <<zoomVars, sideVars>>

\* The success argument of the mark_processed call at this position.
MarkArg == IF pc \in {"mark_try", "save_try"} THEN ret = "true" ELSE FALSE

\* Where an exception raised inside mark_processed goes: the call in the try
\* block is caught by "except Exception", the call in the handler is not.
OnSaveError == IF pc \in {"mark_try", "save_try"} THEN "mark_except" ELSE "raised"

\* tracker.mark_processed(filepath, success): the entry is set in memory, then
\* _save makes the directory and opens the file for writing, which empties it.
\* The open can fail (OSError) and leaves the file as it was.
MarkProcessed ==
    /\ pc \in {"mark_try", "mark_except"}
    /\ processed' = SetEntry(processed, cur, MarkArg)
    /\ \/ /\ disk' = Corrupt
          /\ pc' = IF pc = "mark_try" THEN "save_try" ELSE "save_except"
       \/ /\ disk' = disk
          /\ pc' = OnSaveError
    /\ UNCHANGED <<inbox, size, link, running, new_files, idx, size1, ret, restarts,
                   histVars>>
    /\ UNCHANGED <<zoomVars, sideVars>>

\* Variant: the write returns while the data is still buffered, the file empty.
SaveWriteBuffered ==
    /\ pc \in {"save_try", "save_except"}
    /\ \/ /\ disk' = disk
          /\ pc' = "for"
          /\ idx' = idx + 1
          /\ ret' = "none"
       \/ /\ disk' = Corrupt
          /\ pc' = OnSaveError
          /\ UNCHANGED <<idx, ret>>
    /\ UNCHANGED <<inbox, size, link, processed, running, new_files, size1, restarts,
                   histVars>>
    /\ UNCHANGED <<zoomVars, sideVars>>

\* _save, the write itself: the whole mapping is written and mark_processed
\* returns, or the write fails (OSError) and leaves a cut-off file.
SaveWrite ==
    /\ pc \in {"save_try", "save_except"}
    /\ \/ /\ disk' = Dumps(processed)
          /\ pc' = "for"
          /\ idx' = idx + 1
          /\ ret' = "none"
       \/ /\ disk' = Corrupt
          /\ pc' = OnSaveError
          /\ UNCHANGED <<idx, ret>>
    /\ UNCHANGED <<inbox, size, link, processed, running, new_files, size1, restarts,
                   histVars>>
    /\ UNCHANGED <<zoomVars, sideVars>>

(***************************************************************************)
(* The process ends abruptly (kill -9, power loss) and is started again.   *)
(* processed keeps the dead process's last mapping until the restart.      *)
(***************************************************************************)
Crash ==
    /\ Alive
    /\ restarts < MaxRestarts
    /\ pc' = IF pc \in {"save_try", "save_except", "mark_except"}
             THEN "dead_dirty" ELSE "dead"
    /\ new_files' = <<>>
    /\ idx' = 1
    /\ size1' = Missing
    /\ ret' = "none"
    /\ skipped' = {}
    /\ UNCHANGED <<envVars, processed, running, restarts, completed, added, prevPass,
                   thisPass>>
    /\ UNCHANGED <<zoomVars, sideVars>>

\* main(): tracker = FileTracker(tracker_path); run_watcher(inbox_dir, tracker)
Restart ==
    /\ ~Alive
    /\ restarts < MaxRestarts
    /\ restarts' = restarts + 1
    /\ processed' = Load(disk)
    /\ running' = TRUE
    /\ pc' = "while"
    /\ new_files' = <<>>
    /\ idx' = 1
    /\ size1' = Missing
    /\ ret' = "none"
    /\ skipped' = {}
    /\ UNCHANGED <<envVars, completed, added, prevPass, thisPass>>
    /\ UNCHANGED <<zoomVars, sideVars>>

Next ==
    \/ EnvMkdir
    \/ \E i \in Identities : EnvWrite(i)
    \/ \E i \in Identities : EnvRemove(i)
    \/ EnvLink
    \/ HandleSignal
    \/ Scan
    \/ LoopExit
    \/ ForEnd
    \/ ForBreak
    \/ StableFirst
    \/ StableSecond
    \/ ProcessFile
    \/ MarkProcessed
    \/ SaveWrite
    \/ Crash
    \/ Restart

Spec == Init /\ [][Next]_vars

TypeOK ==
    /\ inbox \in BOOLEAN
    /\ size \in [Identities -> {Missing} \cup Sizes]
    /\ link \in BOOLEAN
    /\ disk.kind \in {"absent", "corrupt", "json"}
    /\ pc \in {"while", "for", "stable_wait", "process", "mark_try", "save_try",
               "mark_except", "save_except", "stopped", "raised", "dead", "dead_dirty"}
    /\ DOMAIN processed \subseteq Identities
    /\ running \in BOOLEAN
    /\ Range(new_files) \subseteq Identities
    /\ idx \in 1..(Len(new_files) + 1)
    /\ ret \in {"none", "true", "false", "raise"}
    /\ restarts \in 0..MaxRestarts
    /\ completed \subseteq Identities
    /\ skipped \subseteq Identities

(***************************************************************************)
(* Vocabulary of the properties.                                           *)
(***************************************************************************)
HasEntry(i) == i \in DOMAIN processed

HasSuccessEntry(i) == HasEntry(i) /\ processed[i].success

HasFailureEntry(i) == HasEntry(i) /\ ~processed[i].success

\* The step in which find_new_files runs.
ScanStep == pc = "while" /\ pc' = "for"

\* The step in which the process_file call returns or raises.
ProcessorStep == pc = "process" /\ pc' \in {"mark_try", "mark_except"}

\* The step in which a mark_processed call returns.
MarkReturns == pc \in {"save_try", "save_except"} /\ pc' = "for"

\* The steps in which is_file_stable returns True, and False.
ProbeTrue == pc = "stable_wait" /\ pc' = "process"

ProbeFalse ==
    \/ pc = "stable_wait" /\ pc' = "for"
    \/ pc = "for" /\ pc' = "for" /\ idx' = idx + 1

\* No mark_processed call of the process is in flight or has failed.
MarksReturned == pc \in {"while", "for", "stable_wait", "process", "mark_try",
                         "stopped", "dead"}

(***************************************************************************)
(* C1: for every identity, over poll restarts and crashes, the     *)
(* processor completes successfully at most once.                          *)
(***************************************************************************)
C1_AtMostOnceSuccess ==
    [][(ProcessorStep /\ ret' = "true") => cur \notin completed]_vars

(***************************************************************************)
(* C2: once the ledger holds a success = true entry for an identity, the   *)
(* loop does not invoke the processor for that identity again.             *)
(***************************************************************************)
C2_NoInvocationAfterSuccess == pc = "process" => ~HasSuccessEntry(cur)

(***************************************************************************)
(* C3: when the mark_processed calls made so far have returned, the        *)
(* mapping a new FileTracker loads from the file has every marked identity *)
(* with the success value of its last mark; each call has written its      *)
(* entry through when it returns.                                          *)
(***************************************************************************)
C3_WriteThrough ==
    /\ [](MarksReturned =>
            \A i \in DOMAIN processed :
                IsProcessed(Load(disk), i) /\ Load(disk)[i] = processed[i])
    /\ [][MarkReturns =>
            /\ IsProcessed(Load(disk'), cur)
            /\ Load(disk')[cur].success = MarkArg]_vars

\* A restarted process whose tracker loaded a success and a failure entry.
C3_Witness ==
    /\ restarts = 1
    /\ pc = "while"
    /\ new_files = <<>>
    /\ HasSuccessEntry(1)
    /\ HasFailureEntry(2)

(***************************************************************************)
(* C4 as stated: an identity with a success = false entry is returned      *)
(* again by the next scan.                                                 *)
(***************************************************************************)
C4_FailedIsRescanned ==
    [][ScanStep =>
         \A i \in Identities :
             (HasFailureEntry(i) /\ IsFile(i)) => i \in Range(new_files')]_vars

(***************************************************************************)
(* C4 amended: an identity with a success = false entry is not eligible    *)
(* while the ledger holds the entry: whatever is still to be handled in    *)
(* the current cycle and has such an entry got it in this very cycle, from *)
(* an earlier occurrence of the same identity in the list.                 *)
(***************************************************************************)
C4_FailedIsNotRetried ==
    pc \in {"for", "stable_wait", "process"} =>
        \A k \in idx..Len(new_files) :
            HasFailureEntry(new_files[k]) =>
                \E j \in 1..(k - 1) : new_files[j] = new_files[k]

\* Right after a scan: a stable file with a failure entry was not returned.
C4_Witness ==
    /\ pc = "for"
    /\ idx = 1
    /\ ~added
    /\ \E i \in Identities :
          HasFailureEntry(i) /\ size[i] > 0 /\ i \notin Range(new_files)

(***************************************************************************)
(* C5: is_processed(identity) is true exactly when the ledger holds an     *)
(* entry for the identity, whatever its success value: a scan leaves out   *)
(* the present files with a success entry and those with a failure entry,  *)
(* and returns those without an entry.                                     *)
(***************************************************************************)
C5_IsProcessedIffEntry ==
    [][ScanStep =>
         \A e \in Range(Entries) :
             (IsFile(e) /\ IsSupportedFile(e)) =>
                 /\ HasSuccessEntry(Resolve(e)) => Resolve(e) \notin Range(new_files')
                 /\ HasFailureEntry(Resolve(e)) => Resolve(e) \notin Range(new_files')
                 /\ ~HasEntry(Resolve(e)) => Resolve(e) \in Range(new_files')]_vars

\* Right after a scan over a failed file and an unmarked one.
C5_Witness ==
    /\ pc = "for"
    /\ idx = 1
    /\ ~added
    /\ HasFailureEntry(1)
    /\ size[1] # Missing
    /\ ~HasEntry(2)
    /\ new_files = <<2>>

(***************************************************************************)
(* C6: is_file_stable returns true exactly when both size reads succeeded, *)
(* the sizes are equal and greater than 0; a failed read makes it return   *)
(* false; it raises nothing and changes neither the files nor the ledger.  *)
(***************************************************************************)
C6_StableIffSameNonzeroSize ==
    [][/\ (pc = "for" /\ pc' = "stable_wait") => size1' = size[cur] /\ size1' # Missing
       /\ ProbeTrue =>
            /\ size1 # Missing
            /\ size[cur] # Missing
            /\ size1 = size[cur]
            /\ size[cur] > 0
       /\ (pc = "stable_wait" /\ pc' = "for") =>
            \/ size[cur] = Missing
            \/ size1 # size[cur]
            \/ size[cur] = 0
       /\ (pc = "for" /\ pc' = "for" /\ idx' = idx + 1) => size[cur] = Missing
       /\ (ProbeTrue \/ ProbeFalse) => UNCHANGED <<envVars, processed>>
       /\ pc \in {"for", "stable_wait"} => pc' # "raised"]_vars

\* The probe has answered true after it answered false in the same cycle.
C6_Witness == pc = "process" /\ skipped # {} /\ size[cur] = MaxSize

(***************************************************************************)
(* C7: a candidate for which the probe returned false is not passed to the *)
(* processor in that cycle.                                                *)
(***************************************************************************)
C7_SkippedNotProcessedInCycle == pc = "process" => cur \notin skipped

(***************************************************************************)
(* C8 as stated: the second of two successive passes, with no file added   *)
(* in between, invokes the processor zero times.                           *)
(***************************************************************************)
C8_SecondPassIdle == pc = "process" => thisPass \notin {"quiet", "quiet_clean"}

(***************************************************************************)
(* C8 amended: the second of two successive passes, with no file added in  *)
(* between and no candidate skipped as unstable in the first, invokes the  *)
(* processor zero times.                                                   *)
(***************************************************************************)
C8_SecondPassIdleAfterCleanPass == pc = "process" => thisPass # "quiet_clean"

\* A second pass over two stable files that the ledger holds.
C8_Witness ==
    /\ pc = "for"
    /\ thisPass = "quiet_clean"
    /\ \A i \in Identities : size[i] > 0 /\ HasEntry(i) /\ i \in completed

(***************************************************************************)
(* C9: the entry written for a stable candidate has success equal to the   *)
(* processor's return value, and false when the processor raised.          *)
(***************************************************************************)
C9_EntryIsProcessorOutcome ==
    [][MarkReturns => processed'[cur].success = (ret = "true")]_vars

(***************************************************************************)
(* C10: run_watcher leaves its loop only after a stop signal; no error     *)
(* ends it.                                                                *)
(***************************************************************************)
C10_OnlyStopEndsLoop == pc \in {"stopped", "raised"} => ~running

(***************************************************************************)
(* C12: after a stop signal has reached run_watcher, no further item is    *)
(* taken from the list, and the item in flight leaves its mark_processed   *)
(* calls with an entry in the tracker file, the loop going on to its exit. *)
(***************************************************************************)
C12_StopFinishesItemInFlight ==
    /\ [][(~running /\ pc = "for") => pc' \notin {"stable_wait", "process"}]_vars
    /\ [][(/\ ~running
           /\ pc \in {"mark_try", "save_try", "mark_except", "save_except"}
           /\ pc' \in {"for", "raised"})
           => (pc' = "for" /\ IsProcessed(Load(disk'), cur))]_vars

(***************************************************************************)
(* The remote loop.  Every action below is one step of the poller task     *)
(* from one suspension point to the next, or a step of its environment.    *)
(* BotState.zoom_enabled and zoom_email, which the poller never reads, are *)
(* left out.                                                               *)
(***************************************************************************)
ZoomInit ==
    /\ LocalInit
    /\ SideIdle
    /\ ZoomFields
    /\ save_file_fn \in BOOLEAN
    /\ zpc = "load"

\* The meeting the for loop is at.
meeting_uuid == meetings[midx]

\* recordings.get("meetings", []): the meetings Zoom holds in the window of the
\* listing, in its order.
Listing ==
    SelectSeq([u \in Uuids |-> u], LAMBDA u : recordings[u] \in {"pending", "ready"})

\* The files one item writes: transcript.vtt and metadata.json, and the two
\* mirror copies when a mirror function was given.
LocalFiles == 2

AllFiles == IF save_file_fn THEN 2 * LocalFiles ELSE LocalFiles

Max(a, b) == IF a >= b THEN a ELSE b

\* record_error keeping the first MAX_ERRORS entries.
RecordErrorKeepsFirst(errors, message) ==
    LET appended == Append(errors, message)
    IN  IF Len(appended) > MAX_ERRORS
        THEN SubSeq(appended, 1, MAX_ERRORS)
        ELSE appended

\* BotState.record_error: append, keep the last MAX_ERRORS.
RecordError(errors, message) ==
    LET appended == Append(errors, message)
    IN  IF Len(appended) > MAX_ERRORS
        THEN SubSeq(appended, Len(appended) - MAX_ERRORS + 1, Len(appended))
        ELSE appended

\* The locals of the cycle and of the calls it made.
cycleLocals == <<meetings, processed_uuids, midx, new_count>>

\* The cycle is over, or the task gone: its locals are dead and are cleared.
ClearLocals ==
    /\ after' = NoRequest
    /\ token' = NoToken
    /\ data' = NoData
    /\ meetings' = <<>>
    /\ processed_uuids' = {}
    /\ midx' = 1
    /\ new_count' = 0

\* An exception leaves the call and travels to "except Exception" of the loop.
Raise(e) == zpc' = "except" /\ exc' = e

\* The message of an exception is "401" when Zoom did not accept the token
\* of a request, and "error" for every other failure.
RequestError == IF Accepted(access_token) THEN "error" ELSE "401"

\* The requests that carry the access token.
Requests == {"list_req", "detail_req", "download_req"}

\* _ensure_token returns and the request it precedes is sent.
SendRequest == zpc' = after /\ after' = NoRequest

\* The loop going on to the listing without a token.
LoadTokenProceeds ==
    /\ zpc = "load"
    /\ \/ /\ Raise("error")
          /\ UNCHANGED <<clientVars, after, loaded>>
       \/ /\ zoom_tokens = NoToken
          /\ loaded' = "no"
          /\ zpc' = "list_req"
          /\ UNCHANGED <<clientVars, after, exc>>
       \/ /\ zoom_tokens # NoToken
          /\ access_token' = zoom_tokens.access_token
          /\ expires_at' = zoom_tokens.expires_at
          /\ loaded' = "yes"
          /\ zpc' = "ensure"
          /\ after' = "list_req"
          /\ UNCHANGED exc
    /\ UNCHANGED <<zoomEnvVars, token, data, cycleLocals, botVars, ops, rejected,
                   stopped_at, localVars, sideVars>>

\* load_token and the "if not" of the loop; with a token, list_recordings up
\* to its _ensure_token.
LoadToken ==
    /\ zpc = "load"
    /\ \/ /\ Raise("error")
          /\ UNCHANGED <<clientVars, after, loaded>>
       \/ /\ zoom_tokens = NoToken
          /\ loaded' = "no"
          /\ zpc' = "sleep"
          /\ UNCHANGED <<clientVars, after, exc>>
       \/ /\ zoom_tokens # NoToken
          /\ access_token' = zoom_tokens.access_token
          /\ expires_at' = zoom_tokens.expires_at
          /\ loaded' = "yes"
          /\ zpc' = "ensure"
          /\ after' = "list_req"
          /\ UNCHANGED exc
    /\ UNCHANGED <<zoomEnvVars, token, data, cycleLocals, botVars, ops, rejected,
                   stopped_at, localVars, sideVars>>

\* _ensure_token with the skew left out of the comparison.
EnsureTokenNoSkew ==
    /\ zpc = "ensure"
    /\ IF now > expires_at
       THEN zpc' = "rf_get" /\ UNCHANGED after
       ELSE SendRequest
    /\ UNCHANGED <<zoomEnvVars, clientVars, token, data, cycleLocals, exc, botVars,
                   zoomHistVars, localVars, sideVars>>

\* _ensure_token: the comparison, and the refresh_token call up to its first
\* await.
EnsureToken ==
    /\ zpc = "ensure"
    /\ IF now > expires_at - REFRESH_SKEW
       THEN zpc' = "rf_get" /\ UNCHANGED after
       ELSE SendRequest
    /\ UNCHANGED <<zoomEnvVars, clientVars, token, data, cycleLocals, exc, botVars,
                   zoomHistVars, localVars, sideVars>>

\* "not token or not token.get('refresh_token')" of refresh_token, negated.
HasRefreshToken(row) ==
    IF row = NoToken THEN FALSE ELSE row.refresh_token # NoRefresh

\* refresh_token: get_zoom_token answers.  Without a refresh token the call
\* returns False, _ensure_token drops the value and returns.
RefreshGet ==
    /\ zpc = "rf_get"
    /\ \/ /\ Raise("error")
          /\ UNCHANGED <<after, token>>
       \/ /\ ~HasRefreshToken(zoom_tokens)
          /\ SendRequest
          /\ UNCHANGED <<token, exc>>
       \/ /\ HasRefreshToken(zoom_tokens)
          /\ token' = zoom_tokens
          /\ zpc' = "rf_post"
          /\ UNCHANGED <<after, exc>>
    /\ UNCHANGED <<zoomEnvVars, clientVars, data, cycleLocals, botVars, zoomHistVars,
                   localVars, sideVars>>

\* refresh_token forgetting the held token when the exchange is refused.
RefreshPostForgets ==
    /\ zpc = "rf_post"
    /\ rejected' = TRUE
    /\ access_token' = NoAccess
    /\ expires_at' = 0
    /\ SendRequest
    /\ token' = NoToken
    /\ UNCHANGED <<zoomEnvVars, data, cycleLocals, exc, botVars, loaded, ops,
                   stopped_at, localVars, sideVars>>

\* refresh_token: the token endpoint answers the exchange.  A status other
\* than 200 returns False.
RefreshPost ==
    /\ zpc = "rf_post"
    /\ \/ /\ Raise("error")
          /\ token' = NoToken
          /\ UNCHANGED <<after, data, rejected>>
       \/ /\ rejected' = TRUE
          /\ SendRequest
          /\ token' = NoToken
          /\ UNCHANGED <<data, exc>>
       \/ /\ \E expires_in \in ExpiresIn :
               \E r \in {NoRefresh, Rotate(token.refresh_token)} :
                  data' = [kind |-> "json",
                           access_token |-> IntTime(now) + expires_in,
                           refresh_token |-> r,
                           expires_at |-> IntTime(now) + expires_in]
          /\ zpc' = "rf_save"
          /\ UNCHANGED <<after, token, exc, rejected>>
    /\ UNCHANGED <<zoomEnvVars, clientVars, cycleLocals, botVars, loaded, ops,
                   stopped_at, localVars, sideVars>>

\* The row refresh_token saves.
RefreshedRow ==
    TokenRow(data.access_token,
             IF data.refresh_token # NoRefresh
             THEN data.refresh_token
             ELSE token.refresh_token,
             data.expires_at)

\* refresh_token saving the refresh token of the response, empty or not.
RefreshSaveNoFallback ==
    /\ zpc = "rf_save"
    /\ \/ /\ Raise("error")
          /\ UNCHANGED <<zoom_tokens, clientVars, after>>
       \/ /\ zoom_tokens' = TokenRow(data.access_token, data.refresh_token,
                                     data.expires_at)
          /\ access_token' = data.access_token
          /\ expires_at' = data.expires_at
          /\ SendRequest
          /\ UNCHANGED exc
    /\ token' = NoToken
    /\ data' = NoData
    /\ UNCHANGED <<now, zoom_processed, recordings, artifacts, save_file_fn, cycleLocals,
                   botVars, zoomHistVars, localVars, sideVars>>

\* refresh_token: save_zoom_token answers; then the token held in memory is
\* replaced and True returned.
RefreshSave ==
    /\ zpc = "rf_save"
    /\ \/ /\ Raise("error")
          /\ UNCHANGED <<zoom_tokens, clientVars, after>>
       \/ /\ zoom_tokens' = RefreshedRow
          /\ access_token' = data.access_token
          /\ expires_at' = data.expires_at
          /\ SendRequest
          /\ UNCHANGED exc
    /\ token' = NoToken
    /\ data' = NoData
    /\ UNCHANGED <<now, zoom_processed, recordings, artifacts, save_file_fn, cycleLocals,
                   botVars, zoomHistVars, localVars, sideVars>>

\* list_recordings: Zoom answers the listing request; then "if not meetings",
\* and the get_processed_uuids request.
ListRecordings ==
    /\ zpc = "list_req"
    /\ \/ /\ Raise(RequestError)
          /\ UNCHANGED <<meetings, zoom_last_poll>>
       \/ /\ Accepted(access_token)
          /\ meetings' = Listing
          /\ IF Listing = <<>>
             THEN zoom_last_poll' = TRUE /\ zpc' = "sleep"
             ELSE zpc' = "ledger" /\ UNCHANGED zoom_last_poll
          /\ UNCHANGED exc
    /\ UNCHANGED <<zoomEnvVars, clientVars, after, token, data, processed_uuids, midx,
                   new_count, recent_errors, zoom_transcript_count, last_activity,
                   zoomHistVars, localVars, sideVars>>

\* get_processed_uuids answers; new_count = 0 and the for loop begins.
GetProcessedUuids ==
    /\ zpc = "ledger"
    /\ \/ /\ Raise("error")
          /\ UNCHANGED <<processed_uuids, midx, new_count>>
       \/ /\ processed_uuids' = zoom_processed
          /\ new_count' = 0
          /\ midx' = 1
          /\ zpc' = "for"
          /\ UNCHANGED exc
    /\ UNCHANGED <<zoomEnvVars, clientVars, after, token, data, meetings, botVars,
                   zoomHistVars, localVars, sideVars>>

\* The for loop taking every listed meeting, processed or not.
NextMeetingUnfiltered ==
    /\ zpc = "for"
    /\ midx <= Len(meetings)
    /\ zpc' = "ensure"
    /\ after' = "detail_req"
    /\ UNCHANGED <<zoomEnvVars, clientVars, token, data, cycleLocals, exc, botVars,
                   zoomHistVars, localVars, sideVars>>

\* The for loop at its next meeting: continue when the uuid is in processed,
\* get_meeting_transcript up to its _ensure_token otherwise.
NextMeeting ==
    /\ zpc = "for"
    /\ midx <= Len(meetings)
    /\ IF meeting_uuid \in processed_uuids
       THEN midx' = midx + 1 /\ UNCHANGED <<zpc, after>>
       ELSE zpc' = "ensure" /\ after' = "detail_req" /\ UNCHANGED midx
    /\ UNCHANGED <<zoomEnvVars, clientVars, token, data, meetings, processed_uuids,
                   new_count, exc, botVars, zoomHistVars, localVars, sideVars>>

\* The for loop is through: record_activity when something was pulled, then
\* zoom_last_poll, and the sleep of the loop.
PollEnd ==
    /\ zpc = "for"
    /\ midx > Len(meetings)
    /\ last_activity' = (new_count > 0 \/ last_activity)
    /\ zoom_last_poll' = TRUE
    /\ zpc' = "sleep"
    /\ ClearLocals
    /\ UNCHANGED <<zoomEnvVars, clientVars, exc, recent_errors, zoom_transcript_count,
                   zoomHistVars, localVars, sideVars>>

\* get_meeting_transcript returning None for every recording, also one that
\* has a transcript.
GetRecordingSkipsReady ==
    /\ zpc = "detail_req"
    /\ \/ /\ Raise(RequestError)
          /\ UNCHANGED <<midx, after>>
       \/ /\ Accepted(access_token)
          /\ midx' = midx + 1
          /\ zpc' = "for"
          /\ UNCHANGED <<exc, after>>
       \/ /\ Accepted(access_token)
          /\ recordings[meeting_uuid] = "ready"
          /\ zpc' = "ensure"
          /\ after' = "download_req"
          /\ UNCHANGED <<exc, midx>>
    /\ UNCHANGED <<zoomEnvVars, clientVars, token, data, meetings, processed_uuids,
                   new_count, botVars, zoomHistVars, localVars, sideVars>>

\* get_meeting_transcript turning every error status into None.
GetRecordingSwallowsErrors ==
    /\ zpc = "detail_req"
    /\ \/ /\ \/ ~Accepted(access_token)
             \/ recordings[meeting_uuid] # "ready"
          /\ midx' = midx + 1
          /\ zpc' = "for"
          /\ UNCHANGED <<exc, after>>
       \/ /\ Accepted(access_token)
          /\ recordings[meeting_uuid] = "ready"
          /\ zpc' = "ensure"
          /\ after' = "download_req"
          /\ UNCHANGED <<exc, midx>>
    /\ UNCHANGED <<zoomEnvVars, clientVars, token, data, meetings, processed_uuids,
                   new_count, botVars, zoomHistVars, localVars, sideVars>>

\* get_meeting_transcript: Zoom answers the recording request.  An error
\* status other than 404 is raised.  404 (the recording is gone) and a
\* recording without a transcript file or without a download url give None
\* and the loop continues; otherwise the download follows.
GetRecording ==
    /\ zpc = "detail_req"
    /\ \/ /\ Raise(RequestError)
          /\ UNCHANGED <<midx, after>>
       \/ /\ Accepted(access_token)
          /\ recordings[meeting_uuid] # "ready"
          /\ midx' = midx + 1
          /\ zpc' = "for"
          /\ UNCHANGED <<exc, after>>
       \/ /\ Accepted(access_token)
          /\ recordings[meeting_uuid] = "ready"
          /\ zpc' = "ensure"
          /\ after' = "download_req"
          /\ UNCHANGED <<exc, midx>>
    /\ UNCHANGED <<zoomEnvVars, clientVars, token, data, meetings, processed_uuids,
                   new_count, botVars, zoomHistVars, localVars, sideVars>>

\* The download answers; then the directory and the files are written, the
\* mirror copies saved and the mark_processed request sent.  k files are
\* written before a write raises.
Download ==
    /\ zpc = "download_req"
    /\ \/ /\ Raise(RequestError)
          /\ UNCHANGED artifacts
       \/ /\ Accepted(access_token)
          /\ \E k \in 0..AllFiles :
               /\ artifacts' = [artifacts EXCEPT ![meeting_uuid] = Max(@, k)]
               /\ IF k < AllFiles
                  THEN Raise("error")
                  ELSE zpc' = "mark" /\ UNCHANGED exc
    /\ UNCHANGED <<now, zoom_tokens, zoom_processed, recordings, save_file_fn, clientVars,
                   after, token, data, cycleLocals, botVars, zoomHistVars, localVars, sideVars>>

\* mark_processed answers; then the two counters.
ZoomMarkProcessed ==
    /\ zpc = "mark"
    /\ \/ /\ Raise("error")
          /\ UNCHANGED <<zoom_processed, new_count, zoom_transcript_count, midx, ops>>
       \/ /\ zoom_processed' = zoom_processed \cup {meeting_uuid}
          /\ new_count' = new_count + 1
          /\ zoom_transcript_count' = zoom_transcript_count + 1
          /\ midx' = midx + 1
          /\ zpc' = "for"
          /\ ops' = ops \cup {"marked"}
          /\ UNCHANGED exc
    /\ UNCHANGED <<now, zoom_tokens, recordings, artifacts, save_file_fn, clientVars,
                   after, token, data, meetings, processed_uuids, recent_errors,
                   zoom_last_poll, last_activity, loaded, rejected, stopped_at,
                   localVars, sideVars>>

\* "except Exception" logging the error without recording it.
ExceptUnrecorded ==
    /\ zpc = "except"
    /\ exc' = "none"
    /\ zpc' = "sleep"
    /\ ops' = ops \cup {"record_error"}
    /\ ClearLocals
    /\ UNCHANGED <<zoomEnvVars, clientVars, botVars, loaded, rejected, stopped_at,
                   localVars, sideVars>>

\* "except Exception" beginning the next cycle at once, without the sleep.
ExceptRetriesAtOnce ==
    /\ zpc = "except"
    /\ recent_errors' = RecordError(recent_errors, exc)
    /\ exc' = "none"
    /\ zpc' = "load"
    /\ ops' = ops \cup {"record_error"}
    /\ ClearLocals
    /\ UNCHANGED <<zoomEnvVars, clientVars, zoom_transcript_count, zoom_last_poll,
                   last_activity, loaded, rejected, stopped_at, localVars, sideVars>>

\* "except Exception": bot_state.record_error, then the sleep of the loop.
Except ==
    /\ zpc = "except"
    /\ recent_errors' = RecordError(recent_errors, exc)
    /\ exc' = "none"
    /\ zpc' = "sleep"
    /\ ops' = ops \cup {"record_error"}
    /\ ClearLocals
    /\ UNCHANGED <<zoomEnvVars, clientVars, zoom_transcript_count, zoom_last_poll,
                   last_activity, loaded, rejected, stopped_at, localVars, sideVars>>

\* asyncio.sleep(poll_interval) returns and "while True" begins the next
\* cycle.
Sleep ==
    /\ zpc = "sleep"
    /\ now < MaxTime
    /\ now' = now + poll_interval
    /\ zpc' = "load"
    /\ loaded' = "unknown"
    /\ ops' = {}
    /\ rejected' = FALSE
    /\ UNCHANGED <<zoom_tokens, zoom_processed, recordings, artifacts, save_file_fn,
                   clientVars, after, token, data, cycleLocals, exc, botVars, stopped_at,
                   localVars, sideVars>>

\* The positions at which the poller task is suspended in an await.
AwaitPoints == {"load", "rf_get", "rf_post", "rf_save", "list_req", "ledger",
                "detail_req", "download_req", "mark", "sleep"}

\* The poller task is cancelled, or the process replaced or ended.  The loop
\* is "while True" and reads no stop flag; CancelledError is not an
\* Exception, so the task ends at the await it is suspended in.
Cancel ==
    /\ zpc \in AwaitPoints
    /\ stopped_at' = zpc
    /\ zpc' = "cancelled"
    /\ ClearLocals
    /\ loaded' = "unknown"
    /\ ops' = {}
    /\ rejected' = FALSE
    /\ UNCHANGED <<zoomEnvVars, clientVars, exc, botVars, localVars, sideVars>>

\* The poller task is alive.
Polling == zpc \notin {"off", "cancelled"}

\* Time passes.
ClockTick ==
    /\ Polling
    /\ now < MaxTime
    /\ now' = now + Tick
    /\ UNCHANGED <<zoom_tokens, zoom_processed, recordings, artifacts, save_file_fn,
                   clientVars, pollVars, botVars, zoomHistVars, localVars, sideVars>>

\* The loop sees what Zoom holds in the answers to its listing and recording
\* requests only: a change at Zoom is taken when such an answer is due.
Answering == zpc \in {"list_req", "detail_req"}

\* Zoom finishes recording meeting u, and later its transcript.
EnvRecording(u) ==
    /\ Answering
    /\ recordings[u] \in {"none", "pending"}
    /\ \E r \in {"pending", "ready"} :
         /\ r # recordings[u]
         /\ recordings' = [recordings EXCEPT ![u] = r]
    /\ UNCHANGED <<now, zoom_tokens, zoom_processed, artifacts, save_file_fn, clientVars,
                   pollVars, botVars, zoomHistVars, localVars, sideVars>>

\* The recording of meeting u is deleted, or its meeting is now older than
\* the window of the listing: Zoom lists it no more and answers 404 for it.
EnvGone(u) ==
    /\ Answering
    /\ recordings[u] \in {"pending", "ready"}
    /\ recordings' = [recordings EXCEPT ![u] = "gone"]
    /\ UNCHANGED <<now, zoom_tokens, zoom_processed, artifacts, save_file_fn, clientVars,
                   pollVars, botVars, zoomHistVars, localVars, sideVars>>

\* oauth.callback: the authorization code is exchanged and the row saved.
Callback ==
    /\ Polling
    /\ \E expires_in \in ExpiresIn :
         \E r \in {NoRefresh, 1} :
            zoom_tokens' = TokenRow(IntTime(now) + expires_in, r,
                                    IntTime(now) + expires_in)
    /\ UNCHANGED <<now, zoom_processed, recordings, artifacts, save_file_fn, clientVars,
                   pollVars, botVars, zoomHistVars, localVars, sideVars>>

\* oauth.disconnect: the row is deleted.
Disconnect ==
    /\ Polling
    /\ zoom_tokens # NoToken
    /\ zoom_tokens' = NoToken
    /\ UNCHANGED <<now, zoom_processed, recordings, artifacts, save_file_fn, clientVars,
                   pollVars, botVars, zoomHistVars, localVars, sideVars>>

ZoomNext ==
    \/ LoadToken
    \/ EnsureToken
    \/ RefreshGet
    \/ RefreshPost
    \/ RefreshSave
    \/ ListRecordings
    \/ GetProcessedUuids
    \/ NextMeeting
    \/ PollEnd
    \/ GetRecording
    \/ Download
    \/ ZoomMarkProcessed
    \/ Except
    \/ Sleep
    \/ Cancel
    \/ ClockTick
    \/ \E u \in Uuids : EnvRecording(u)
    \/ \E u \in Uuids : EnvGone(u)
    \/ Callback
    \/ Disconnect

SpecZoom == ZoomInit /\ [][ZoomNext]_vars

ZoomTypeOK ==
    /\ now \in Frac..MaxTime
    /\ zoom_tokens.kind \in {"none", "row"}
    /\ zoom_processed \subseteq Uuids
    /\ recordings \in [Uuids -> {"none", "pending", "ready", "gone"}]
    /\ artifacts \in [Uuids -> 0..AllFiles]
    /\ zpc \in AwaitPoints \cup {"ensure", "for", "except", "cancelled"}
    /\ after \in {NoRequest} \cup Requests
    /\ Range(meetings) \subseteq Uuids
    /\ midx \in 1..(Len(meetings) + 1)
    /\ Len(recent_errors) <= MAX_ERRORS
    /\ ops \subseteq {"marked", "record_error"}

(***************************************************************************)
(* Vocabulary of the properties of the remote loop.                        *)
(***************************************************************************)
\* The positions inside a refresh_token call.
RefreshPoints == {"rf_get", "rf_post", "rf_save"}

\* _ensure_token returns and the request is sent.
RequestSent == zpc \in {"ensure"} \cup RefreshPoints /\ zpc' \in Requests

\* refresh_token returns False: it returns before the save.
RefreshReturnsFalse == zpc \in {"rf_get", "rf_post"} /\ zpc' \in Requests

\* The positions between the answer to an item's recording request, or the
\* writing of its files, and the answer to its mark_processed request.
MidItem == {"download_req", "mark"}

\* The loop has a meeting in hand: its detail is being fetched, its transcript
\* downloaded, its files written or its mark sent.
InHand ==
    \/ zpc \in {"detail_req", "download_req", "mark"}
    \/ zpc \in {"ensure"} \cup RefreshPoints /\ after \in {"detail_req", "download_req"}

(***************************************************************************)
(* C11: an exception raised in a cycle is recorded by record_error as the  *)
(* latest error and the loop goes to its sleep, from which only the next   *)
(* cycle follows; no uuid leaves the remote ledger.                        *)
(***************************************************************************)
C11_ErrorEndsCycleAndIsRecorded ==
    /\ [][(zpc = "except" /\ zpc' # "except")
           => /\ zpc' = "sleep"
              /\ Len(recent_errors') = IF Len(recent_errors) < MAX_ERRORS
                                       THEN Len(recent_errors) + 1
                                       ELSE MAX_ERRORS
              /\ recent_errors'[Len(recent_errors')] = exc]_vars
    /\ [][(exc = "none" /\ exc' # "none") => zpc' = "except"]_vars
    /\ [][(zpc = "sleep" /\ zpc' # "sleep") => zpc' \in {"load", "cancelled"}]_vars
    /\ [][zoom_processed \subseteq zoom_processed']_vars

\* An error has ended a cycle in which a meeting had been marked.
C11_Witness ==
    /\ zpc = "sleep"
    /\ ops = {"marked", "record_error"}
    /\ recent_errors # <<>>
    /\ zoom_processed # {}

(***************************************************************************)
(* C13: the remote loop is stopped only at a cycle boundary, never between *)
(* the fetch of an item's detail or the writing of its files and the mark  *)
(* of that item.                                                           *)
(***************************************************************************)
C13_NeverStoppedMidItem == zpc = "cancelled" => stopped_at \notin MidItem

(***************************************************************************)
(* C14: every request carrying the access token is sent with a token for   *)
(* which now < expires_at - 60 holds when _ensure_token returns.           *)
(***************************************************************************)
C14_RequestsUseFreshToken ==
    [][RequestSent => now < expires_at' - REFRESH_SKEW]_vars

(***************************************************************************)
(* C15: one _ensure_token call makes one refresh_token call when the held  *)
(* token expires within 60 s or has expired, and none otherwise.           *)
(***************************************************************************)
C15_EnsureRefreshesOnceIffStale ==
    /\ [][(zpc = "ensure" /\ zpc' # "ensure")
           => IF now > expires_at - REFRESH_SKEW
              THEN zpc' = "rf_get"
              ELSE zpc' = after]_vars
    /\ [][(zpc # "rf_get" /\ zpc' = "rf_get") => zpc = "ensure"]_vars
    /\ [][(zpc \in RefreshPoints /\ zpc' \notin RefreshPoints)
           => zpc' \in Requests \cup {"except", "cancelled"}]_vars

\* A refresh_token call has begun for a token that has expired.
C15_Witness == zpc = "rf_get" /\ access_token # NoAccess /\ now > expires_at

(***************************************************************************)
(* C16: a refresh_token call that returns False (no refresh token stored,  *)
(* or the exchange refused) changes neither the token row nor the token    *)
(* and expiry held in memory.                                              *)
(***************************************************************************)
C16_FailedRefreshLeavesToken ==
    [][RefreshReturnsFalse => UNCHANGED <<zoom_tokens, access_token, expires_at>>]_vars

\* The exchange was refused and the client still holds the token of the row.
C16_Witness ==
    /\ rejected
    /\ zpc \in Requests
    /\ zoom_tokens # NoToken
    /\ access_token = zoom_tokens.access_token
    /\ expires_at = zoom_tokens.expires_at

(***************************************************************************)
(* C17: after a successful exchange refresh_token saves one row holding    *)
(* the new access token, the refresh token of the response or else the one *)
(* it had read, and the new expiry; the token and expiry in memory are     *)
(* replaced by those of the row when the save succeeded, and kept when it  *)
(* failed.                                                                 *)
(***************************************************************************)
C17_RefreshPersistsThenReplaces ==
    [][(zpc = "rf_save" /\ zpc' \notin {"rf_save", "cancelled"})
        => IF zpc' = "except"
           THEN UNCHANGED <<zoom_tokens, access_token, expires_at>>
           ELSE /\ zpc' \in Requests
                /\ zoom_tokens'.access_token = data.access_token
                /\ zoom_tokens'.expires_at = data.expires_at
                /\ zoom_tokens'.refresh_token =
                      IF data.refresh_token = NoRefresh
                      THEN token.refresh_token
                      ELSE data.refresh_token
                /\ zoom_tokens'.refresh_token # NoRefresh
                /\ access_token' = zoom_tokens'.access_token
                /\ expires_at' = zoom_tokens'.expires_at]_vars

\* A refresh has saved a row with a rotated refresh token, and the client
\* holds the token of that row.
C17_Witness ==
    /\ zpc \in Requests
    /\ zoom_tokens # NoToken
    /\ zoom_tokens.refresh_token = Rotate(1)
    /\ access_token = zoom_tokens.access_token
    /\ expires_at = zoom_tokens.expires_at

(***************************************************************************)
(* C18: in a cycle in which the token exchange was refused no uuid is      *)
(* marked, and the cycle ends with the failure recorded by record_error.   *)
(***************************************************************************)
C18_RejectedRefreshPausesCycle ==
    rejected => /\ "marked" \notin ops
                /\ zpc = "sleep" => "record_error" \in ops

(***************************************************************************)
(* C19: when load_token finds no row the cycle goes to its sleep at once:  *)
(* nothing is listed, read, fetched, written or marked.                    *)
(***************************************************************************)
C19_NoTokenSkipsCycle ==
    /\ [][(zpc = "load" /\ zpc' \notin {"load", "except", "cancelled"})
           => IF zoom_tokens = NoToken
              THEN /\ zpc' = "sleep"
                   /\ UNCHANGED <<zoomEnvVars, clientVars, botVars, meetings,
                                  processed_uuids>>
              ELSE zpc' = "ensure"]_vars
    /\ [](loaded = "no" => zpc = "sleep" /\ ops = {})

\* A cycle that found no token is asleep.
C19_Witness == loaded = "no" /\ zpc = "sleep" /\ zoom_tokens = NoToken

(***************************************************************************)
(* C20: the meeting in hand is never in the processed set read for the     *)
(* cycle nor in the remote ledger; files are written and marks made only   *)
(* for uuids the ledger does not hold.                                     *)
(***************************************************************************)
C20_ProcessedUuidsAreSkipped ==
    /\ [](InHand => /\ meeting_uuid \notin processed_uuids
                    /\ meeting_uuid \notin zoom_processed)
    /\ [][\A u \in Uuids : artifacts'[u] # artifacts[u] => u \notin zoom_processed]_vars
    /\ [][(zpc = "mark" /\ zpc' = "for") => meeting_uuid \notin zoom_processed]_vars

\* The for loop has passed a meeting that the processed set holds.
C20_Witness ==
    /\ zpc = "for"
    /\ midx = 2
    /\ meetings[1] \in processed_uuids
    /\ artifacts[meetings[1]] = AllFiles

\* get_meeting_transcript returns None and the loop continues.
NoArtifact == zpc = "detail_req" /\ zpc' = "for"

\* The recording request of the meeting in hand is answered.
DetailAnswered == zpc = "detail_req" /\ zpc' \notin {"detail_req", "cancelled"}

C22_Only404IsNoArtifact ==
    /\ [][NoArtifact
           => (Accepted(access_token) /\ recordings[meeting_uuid] # "ready")]_vars
    /\ [][(DetailAnswered /\ ~Accepted(access_token))
           => (zpc' = "except" /\ exc' = "401" /\ UNCHANGED midx)]_vars
    /\ [][(DetailAnswered /\ recordings[meeting_uuid] = "gone" /\ zpc' # "for")
           => (zpc' = "except" /\ exc' \in {"401", "error"} /\ UNCHANGED midx)]_vars

\* The recording of the first listed meeting was gone when its request was
\* answered (404), and the for loop has gone past it.
C22_Witness ==
    /\ zpc = "for"
    /\ midx = 2
    /\ recordings[meetings[1]] = "gone"
    /\ meetings[1] \notin processed_uuids \cup zoom_processed

(***************************************************************************)
(* The remote loop running without end.  SpecZoomFair follows the loop     *)
(* over any number of cycles: the clock is not advanced, so that a stored  *)
(* token stays fresh and no refresh is made, and the poller task is not    *)
(* cancelled.  The event loop runs the task whenever an await of it has    *)
(* its answer: a step of the poller that stays possible is taken.          *)
(***************************************************************************)
\* asyncio.sleep(poll_interval) returns and "while True" begins the next
\* cycle; the time slept is not followed.
SleepUntimed ==
    /\ zpc = "sleep"
    /\ zpc' = "load"
    /\ loaded' = "unknown"
    /\ ops' = {}
    /\ rejected' = FALSE
    /\ UNCHANGED <<zoomEnvVars, clientVars, after, token, data, cycleLocals, exc, botVars,
                   stopped_at, localVars, sideVars>>

\* A step of the poller task.
PollerStep ==
    \/ LoadToken
    \/ EnsureToken
    \/ ListRecordings
    \/ GetProcessedUuids
    \/ NextMeeting
    \/ PollEnd
    \/ GetRecording
    \/ Download
    \/ ZoomMarkProcessed
    \/ Except
    \/ SleepUntimed

ZoomFairNext ==
    \/ PollerStep
    \/ \E u \in Uuids : EnvRecording(u)
    \/ \E u \in Uuids : EnvGone(u)
    \/ Callback
    \/ Disconnect

SpecZoomFair == ZoomInit /\ [][ZoomFairNext]_vars /\ WF_vars(PollerStep)

\* A call of the cycle raises.
Raised == zpc # "except" /\ zpc' = "except"

\* No call raises but one made for meeting u: its recording request, its
\* download, the writing of its files or its mark.
OnlyFailsOn(u) == Raised => (InHand /\ meeting_uuid = u)

\* Meeting u is listed with its transcript and is not in the remote ledger.
Waiting(u) == recordings[u] = "ready" /\ u \notin zoom_processed

(***************************************************************************)
(* C23: when from some point on a token is stored and no call fails but   *)
(* calls made for the first meeting, the second meeting does not stay      *)
(* listed with its transcript and unmarked for ever.                       *)
(***************************************************************************)
C23_OtherItemsAreEventuallyMarked ==
    (<>[][OnlyFailsOn(1)]_vars /\ <>[](zoom_tokens # NoToken))
        => []<>~Waiting(2)

\* The same when from some point on no call fails at all: no meeting stays
\* listed with its transcript and unmarked for ever.
NoFailureAllMarked ==
    (<>[][~Raised]_vars /\ <>[](zoom_tokens # NoToken))
        => (\A u \in Uuids : []<>~Waiting(u))

(***************************************************************************)
(* The listing request.  SpecListing takes the number of meetings Zoom     *)
(* holds in the window of the request as its input and follows the one     *)
(* request list_recordings makes and what zoom_poll_loop reads of its      *)
(* answer.  The meetings of the window are numbered in the order of the    *)
(* listing.                                                                *)
(***************************************************************************)
\* params["page_size"] of list_recordings.
PAGE_SIZE == 100

Min(a, b) == IF a <= b THEN a ELSE b

\* What Zoom answers to a request without next_page_token when it holds n
\* meetings in the window: the first page, and a token for the next page
\* when there is one.
FirstPage(n) ==
    [kind |-> "json",
     meetings |-> [k \in 1..Min(n, PAGE_SIZE) |-> k],
     next_page_token |-> n > PAGE_SIZE]

ListingInit ==
    /\ LocalInit
    /\ ZoomIdle
    /\ TrackerIdle
    /\ ErrorsIdle
    /\ MirrorIdle
    /\ held \in 0..(PAGE_SIZE + MaxExtra)
    /\ response = NoData

\* list_recordings: the request is sent once and its answer returned as it
\* is.
ListWindow ==
    /\ response = NoData
    /\ response' = FirstPage(held)
    /\ UNCHANGED <<held, trackerVars, calls, mirrorVars, zoomVars, localVars>>

ListingNext == ListWindow

SpecListing == ListingInit /\ [][ListingNext]_vars

\* recordings.get("meetings", []): the meetings the for loop of
\* zoom_poll_loop goes through.
Considered == Range(response.meetings)

(***************************************************************************)
(* C24: the meetings the for loop of a cycle goes through are all the      *)
(* meetings Zoom holds in the window of the listing request.               *)
(***************************************************************************)
C24_ConsidersWholeWindow == response # NoData => Considered = 1..held

(***************************************************************************)
(* The local loop running without end.  The interpreter runs run_watcher   *)
(* on: a step of the loop that stays possible is taken, and a processor    *)
(* call returns.  Signals, crashes, restarts and the sync client come when *)
(* they come.                                                              *)
(***************************************************************************)
\* A step of run_watcher.
WatcherStep ==
    \/ Scan
    \/ LoopExit
    \/ ForEnd
    \/ ForBreak
    \/ StableFirst
    \/ StableSecond
    \/ ProcessFile
    \/ MarkProcessed
    \/ SaveWrite

SpecFair == Init /\ [][Next]_vars /\ WF_vars(WatcherStep)

\* File i is in the inbox with a size above 0 and has no ledger entry.
Unmarked(i) == inbox /\ size[i] > 0 /\ ~HasEntry(i)

\* No signal comes, the process does not crash, and no processor call
\* raises.
NeverStopped ==
    /\ []running
    /\ [](pc \notin {"dead", "dead_dirty"})
    /\ [](ret # "raise")

(***************************************************************************)
(* C25: when no signal comes, the process does not crash, every processor  *)
(* call returns True or False and from some point on no file changes, no   *)
(* supported file stays in the inbox with a size above 0 and without       *)
(* ledger entry for ever.                                                  *)
(***************************************************************************)
C25_StableFileIsEventuallyMarked ==
    (NeverStopped /\ <>[][size' = size]_vars)
        => (\A i \in Identities : []<>~Unmarked(i))

\* The same when in addition no write of the tracker file fails and no
\* entry of the inbox is a symbolic link.
NoSaveFailureAllMarked ==
    (NeverStopped /\ <>[][size' = size]_vars /\ [](pc # "raised" /\ ~link))
        => (\A i \in Identities : []<>~Unmarked(i))

\* The canonical paths, each once and in their lexical order, of the regular
\* files in the inbox that have a supported extension and no ledger entry.
RegularNewFiles ==
    SelectSeq(<<1, 2>>, LAMBDA i : /\ inbox
                                   /\ size[i] # Missing
                                   /\ IsSupportedFile(i)
                                   /\ ~IsProcessed(processed, i))

(***************************************************************************)
(* C26: a scan returns the canonical paths of the regular supported files  *)
(* without ledger entry, each once, in lexical order of the canonical      *)
(* paths, and the empty list when the inbox does not exist.                *)
(***************************************************************************)
C26_ScanReturnsSortedCanonicalPaths ==
    [][ScanStep => new_files' = RegularNewFiles]_vars

(***************************************************************************)
(* FileTracker over any store.  SpecTracker takes the content of the       *)
(* tracker file as its input, builds a FileTracker over it and calls       *)
(* is_processed and mark_processed on it.                                  *)
(***************************************************************************)
\* The file exists and read_text raises OSError (no permission, a
\* directory).
Unreadable == [kind |-> "unreadable"]

\* The file holds bytes that are not UTF-8: read_text raises
\* UnicodeDecodeError.
NotText == [kind |-> "binary"]

\* The file holds JSON that is not an object: the texts "[]" and "null".
JsonList == [kind |-> "list"]

JsonNull == [kind |-> "null"]

\* The mappings a tracker file written by _save can hold.
Ledgers == UNION {[S -> [success : BOOLEAN]] : S \in SUBSET Identities}

StoreContents ==
    {Absent, Corrupt, Unreadable, NotText, JsonList, JsonNull}
        \cup {Dumps(l) : l \in Ledgers}

\* A store that does not hold a mapping written by _save.
BadStore(d) == d.kind \notin {"absent", "json"}

Dict(l) == [kind |-> "dict", data |-> l]

TrackerInit ==
    /\ LocalRest
    /\ disk \in StoreContents
    /\ ZoomIdle
    /\ SideIdle

\* FileTracker.__init__: processed = {}, then _load.  json.loads returns
\* whatever value the text denotes; only JSONDecodeError and OSError are
\* caught.
Construct ==
    /\ file_tracker = NotBuilt
    /\ answer = "none"
    /\ IF disk.kind = "binary"
       THEN answer' = "UnicodeDecodeError" /\ UNCHANGED file_tracker
       ELSE /\ answer' = "returned"
            /\ file_tracker' = IF disk.kind = "json" THEN Dict(disk.data)
                          ELSE IF disk.kind \in {"list", "null"} THEN [kind |-> disk.kind]
                          ELSE Dict(EmptyLedger)
    /\ UNCHANGED <<listVars, calls, mirrorVars, zoomVars, localVars>>

\* is_processed(filepath): "filepath in self.processed".
IsProcessedCall(filepath) ==
    /\ file_tracker # NotBuilt
    /\ answer' = IF file_tracker.kind = "dict"
                 THEN IF IsProcessed(file_tracker.data, filepath) THEN "True" ELSE "False"
                 ELSE IF file_tracker.kind = "list" THEN "False"
                 ELSE "TypeError"
    /\ UNCHANGED <<file_tracker, listVars, calls, mirrorVars, zoomVars, localVars>>

\* mark_processed(filepath, success): the item assignment, then _save, whose
\* write succeeds or raises OSError.
MarkProcessedCall(filepath, success) ==
    /\ file_tracker # NotBuilt
    /\ IF file_tracker.kind = "dict"
       THEN /\ file_tracker' = Dict(SetEntry(file_tracker.data, filepath, success))
            /\ \/ /\ disk' = Dumps(file_tracker'.data)
                  /\ answer' = "returned"
               \/ /\ disk' \in {disk, Corrupt}
                  /\ answer' = "OSError"
       ELSE /\ answer' = "TypeError"
            /\ UNCHANGED <<file_tracker, disk>>
    /\ UNCHANGED <<inbox, size, link, procVars, histVars, listVars, calls, mirrorVars,
                   zoomVars>>

TrackerNext ==
    \/ Construct
    \/ \E i \in Identities : IsProcessedCall(i)
    \/ \E i \in Identities : \E success \in BOOLEAN : MarkProcessedCall(i, success)

SpecTracker == TrackerInit /\ [][TrackerNext]_vars

TrackerTypeOK ==
    /\ disk \in StoreContents
    /\ file_tracker \in {NotBuilt, JsonList, JsonNull} \cup {Dict(l) : l \in Ledgers}
    /\ answer \in {"none", "returned", "True", "False", "OSError", "TypeError",
                   "UnicodeDecodeError"}

(***************************************************************************)
(* C27: building a FileTracker never raises; built over a store that does  *)
(* not hold a mapping it starts with the empty mapping; and no call of     *)
(* is_processed or mark_processed on it raises for the type of             *)
(* self.processed.                                                         *)
(***************************************************************************)
C27_BadStoreStartsEmpty ==
    /\ [](answer # "UnicodeDecodeError")
    /\ [][(file_tracker = NotBuilt /\ file_tracker' # NotBuilt /\ BadStore(disk))
           => file_tracker' = Dict(EmptyLedger)]_vars
    /\ [](answer # "TypeError")

(***************************************************************************)
(* BotState.record_error.  SpecErrors takes as its input a BotState on     *)
(* which record_error was called some times, each time with the message    *)
(* "error", and calls record_error on it with one of two other messages,   *)
(* which tells the new entries from those of the input.  The timestamp of  *)
(* an entry is left out; calls holds every message in call order.          *)
(***************************************************************************)
ErrorsInit ==
    /\ LocalInit
    /\ ZoomRest
    /\ save_file_fn = FALSE
    /\ zpc = "off"
    /\ TrackerIdle
    /\ ListIdle
    /\ MirrorIdle
    /\ \E n \in 0..MAX_ERRORS : calls = [k \in 1..n |-> "error"]
    /\ recent_errors = calls

\* The messages of the calls made on top of the input.
Messages == {"401", "timeout"}

\* How many calls were made on top of the input.
NewCalls == Len(SelectSeq(calls, LAMBDA m : m \in Messages))

\* bot_state.record_error(message)
RecordErrorCall(message) ==
    /\ NewCalls < MaxCalls
    /\ recent_errors' = RecordError(recent_errors, message)
    /\ calls' = Append(calls, message)
    /\ UNCHANGED <<zoomEnvVars, clientVars, pollVars, zoom_transcript_count,
                   zoom_last_poll, last_activity, zoomHistVars, trackerVars, listVars,
                   mirrorVars, localVars>>

ErrorsNext == \E message \in Messages : RecordErrorCall(message)

SpecErrors == ErrorsInit /\ [][ErrorsNext]_vars

\* The last n elements of seq, all of them when there are no more than n.
LastN(seq, n) ==
    IF Len(seq) <= n THEN seq ELSE SubSeq(seq, Len(seq) - n + 1, Len(seq))

(***************************************************************************)
(* C28: recent_errors holds at most 20 entries, and they are the messages  *)
(* of the latest calls of record_error, in call order.                     *)
(***************************************************************************)
C28_RecentErrorsAreLatestTwenty ==
    /\ Len(recent_errors) <= MAX_ERRORS
    /\ recent_errors = LastN(calls, MAX_ERRORS)

\* More than 20 calls were made: the oldest entries are gone and the latest
\* call is the last entry.
C28_Witness ==
    /\ Len(calls) > MAX_ERRORS + 1
    /\ Len(recent_errors) = MAX_ERRORS
    /\ recent_errors[1] = "error"
    /\ recent_errors[MAX_ERRORS] = "timeout"

(***************************************************************************)
(* The mirror passes of telegram_bot.py.  SpecMirror takes as its input    *)
(* any files under the local directory and any objects under the prefix,   *)
(* and makes upload and download passes over them.  A pass is one step:    *)
(* no other code of the process runs during it, and a pass whose transfer  *)
(* raises does not return and is not modelled.  A local entry that is a    *)
(* directory is not a file of the pass and has no place in local_files; a  *)
(* key that ends in a slash is not among the keys.                         *)
(***************************************************************************)
Bytes == {1, 2}

Bodies == UNION {[1..n -> Bytes] : n \in 0..MaxBody}

Files == {NoFile} \cup {File(body) : body \in Bodies}

\* f.stat().st_size, obj['Size']
Size(f) == Len(f.body)

MirrorInit ==
    /\ LocalInit /\ ZoomIdle
    /\ TrackerIdle /\ ListIdle /\ ErrorsIdle
    /\ local_files \in [Names -> Files]
    /\ s3_objects \in [ObjectKeys -> Files]
    /\ transferred = NoPass

\* existing: the size of every object listed under the prefix.
Existing == [key \in {k \in ObjectKeys : s3_objects[k].exists} |-> Size(s3_objects[key])]

\* A pass that uploads a file whenever the object differs from it in content.
NeedsUploadByContent(existing, rel) ==
    ~s3_objects[rel].exists \/ s3_objects[rel].body # local_files[rel].body

\* The test of the upload loop on the file at rel, whose key is prefix + rel:
\* not (key in existing and existing[key] == f.stat().st_size)
NeedsUpload(existing, rel) ==
    ~(rel \in DOMAIN existing /\ existing[rel] = Size(local_files[rel]))

\* _sync_local_to_s3_prefix(s3_client, bucket, prefix, local_dir)
UploadPass ==
    LET existing == Existing
        uploaded == {rel \in Names : local_files[rel].exists /\ NeedsUpload(existing, rel)}
    IN  /\ s3_objects' = [key \in ObjectKeys |->
                            IF key \in uploaded THEN local_files[key] ELSE s3_objects[key]]
        /\ transferred' = [pass |-> "up", keys |-> uploaded]
        /\ UNCHANGED <<local_files, trackerVars, listVars, calls, localVars, zoomVars>>

\* key[len(prefix):].lstrip('/')
RECURSIVE LStrip(_)
LStrip(key) ==
    IF key # <<>> /\ Head(key) = "/" THEN LStrip(Tail(key)) ELSE key

\* A pass that fetches an object whenever the file differs from it in content.
NeedsDownloadByContent(files, rel, obj) ==
    ~files[rel].exists \/ files[rel].body # obj.body

\* The test of the download loop on one object:
\* not (local_path.exists() and local_path.stat().st_size == obj['Size'])
NeedsDownload(files, rel, obj) ==
    ~(files[rel].exists /\ Size(files[rel]) = Size(obj))

\* The download loop from the i-th listed key on: files are the local files
\* so far, keys the keys downloaded so far.
RECURSIVE DownloadFrom(_, _, _)
DownloadFrom(i, files, keys) ==
    IF i > Len(Listed) THEN [files |-> files, keys |-> keys]
    ELSE LET key == Listed[i]
             obj == s3_objects[key]
             rel == LStrip(key)
         IN  IF ~obj.exists \/ rel = <<>> \/ ~NeedsDownload(files, rel, obj)
                 THEN DownloadFrom(i + 1, files, keys)
                 ELSE DownloadFrom(i + 1, [files EXCEPT ![rel] = obj], keys \cup {key})

\* _sync_s3_prefix_to_local(s3_client, bucket, prefix, local_dir)
DownloadPass ==
    LET end == DownloadFrom(1, local_files, {})
    IN  /\ local_files' = end.files
        /\ transferred' = [pass |-> "down", keys |-> end.keys]
        /\ UNCHANGED <<s3_objects, trackerVars, listVars, calls, localVars, zoomVars>>

MirrorNext == UploadPass \/ DownloadPass

SpecMirror == MirrorInit /\ [][MirrorNext]_vars

MirrorTypeOK ==
    /\ local_files \in [Names -> Files]
    /\ s3_objects \in [ObjectKeys -> Files]
    /\ transferred.pass \in {"none", "up", "down"}
    /\ transferred.keys \subseteq ObjectKeys

\* The local files an upload pass has to upload: the object of their key is
\* missing or of another size.
MissingOrResizedFiles ==
    {rel \in Names : /\ local_files[rel].exists
                     /\ \/ ~s3_objects[rel].exists
                        \/ Size(s3_objects[rel]) # Size(local_files[rel])}

(***************************************************************************)
(* C29: an upload pass uploads exactly the local files whose key is        *)
(* missing in the store or whose object is of another size than the file,  *)
(* each to its key, and leaves every other object and every local file as  *)
(* it was: a file whose object is of the same size is skipped whatever the *)
(* two contain.                                                            *)
(***************************************************************************)
C29_UploadsMissingOrResized ==
    [][UploadPass =>
        /\ transferred'.keys = MissingOrResizedFiles
        /\ \A key \in ObjectKeys :
              s3_objects'[key] = IF key \in MissingOrResizedFiles
                                     THEN local_files[key] ELSE s3_objects[key]
        /\ local_files' = local_files]_vars

\* An upload pass uploaded b, which was missing or of another size, and
\* skipped a, whose object is of the same size and of another content.
C29_Witness ==
    /\ transferred = [pass |-> "up", keys |-> {<<"b">>}]
    /\ local_files[<<"a">>].exists /\ s3_objects[<<"a">>].exists
    /\ Size(local_files[<<"a">>]) = Size(s3_objects[<<"a">>])
    /\ local_files[<<"a">>].body # s3_objects[<<"a">>].body
    /\ s3_objects[<<"b">>] = local_files[<<"b">>]

\* The local file of a key: the file at its relative path.  The relative
\* path of the key that is the prefix itself is empty: its local path is
\* local_dir, a directory, and no file.
LocalFileOf(key) ==
    IF LStrip(key) \in Names THEN local_files[LStrip(key)] ELSE NoFile

\* The objects whose local file, as the pass finds it at its start, is
\* missing or of another size.
MissingOrResizedObjects ==
    {key \in ObjectKeys : /\ s3_objects[key].exists
                          /\ \/ ~LocalFileOf(key).exists
                             \/ Size(LocalFileOf(key)) # Size(s3_objects[key])}

FetchedBefore(i, fetched) ==
    {j \in 1..(i - 1) : LStrip(Listed[j]) = LStrip(Listed[i]) /\ Listed[j] \in fetched}

\* The last of a set of positions in the listing.
Last(S) == CHOOSE m \in S : \A n \in S : n <= m

\* The local file of the i-th listed key as the pass finds it on reaching
\* that key: the object last fetched to its path, or else the file the pass
\* started with.
FileWhenReached(i, fetched) ==
    IF FetchedBefore(i, fetched) # {}
        THEN s3_objects[Listed[Last(FetchedBefore(i, fetched))]]
        ELSE local_files[LStrip(Listed[i])]

\* The listed keys of the relative path rel that are among the fetched ones.
FetchedTo(rel, fetched) ==
    {j \in 1..Len(Listed) : LStrip(Listed[j]) = rel /\ Listed[j] \in fetched}

Buckets == {"", "bucket"}

SaveInit ==
    /\ LocalInit /\ ZoomIdle
    /\ TrackerIdle /\ ListIdle /\ ErrorsIdle
    /\ local_files \in [Names -> Files]
    /\ s3_objects \in [ObjectKeys -> Files]
    /\ \A key \in ObjectKeys \ Names : s3_objects[key] = NoFile
    /\ transferred = NoPass

\* A _save_file that skips the upload when the object at the key is of the
\* length of the data.
PutObjectSizeCompared(objects, key, body) ==
    IF objects[key].exists /\ Size(objects[key]) = Len(body)
        THEN objects
        ELSE [objects EXCEPT ![key] = File(body)]

\* s3_client.put_object(Bucket=s3_bucket, Key=key, Body=body)
PutObject(objects, key, body) == [objects EXCEPT ![key] = File(body)]

\* _save_file(s3_client, s3_bucket, prefix, filename, data): s3_client is
\* TRUE for a client and FALSE for None.  transferred holds the arguments
\* that tell whether a store is configured, the keys written to the store
\* and the path returned.
SaveFile(s3_client, s3_bucket, filename, body) ==
    LET configured == s3_client /\ s3_bucket # ""
    IN  /\ local_files' = [local_files EXCEPT ![filename] = File(body)]
        /\ s3_objects' = IF configured THEN PutObject(s3_objects, filename, body)
                                       ELSE s3_objects
        /\ transferred' = [pass |-> "save", keys |-> IF configured THEN {filename} ELSE {},
                           s3_client |-> s3_client, s3_bucket |-> s3_bucket,
                           data |-> body, path |-> filename]
        /\ UNCHANGED <<trackerVars, listVars, calls, localVars, zoomVars>>

SaveNext ==
    \E s3_client \in BOOLEAN, s3_bucket \in Buckets, filename \in Names, body \in Bodies :
        SaveFile(s3_client, s3_bucket, filename, body)

SpecSave == SaveInit /\ [][SaveNext]_vars

\* A step of _save_file, by the record of its arguments and its result.
SaveStep == SaveNext /\ transferred'.pass = "save"

\* The call of the step was given a client and a bucket.
StoreConfigured == transferred'.s3_client /\ transferred'.s3_bucket # ""

(***************************************************************************)
(* C31: _save_file writes the bytes to the local path of the file name,    *)
(* over what was there, and returns that path; with a store configured the *)
(* object at the key of the file name holds the same bytes afterwards;     *)
(* with none configured no object changes.  No other file and no other     *)
(* object changes.                                                         *)
(***************************************************************************)
C31_SaveWritesLocalAndConfiguredStore ==
    [][SaveStep =>
        LET filename == transferred'.path
            body == transferred'.data
        IN  /\ local_files'[filename] = File(body)
            /\ \A rel \in Names \ {filename} : local_files'[rel] = local_files[rel]
            /\ StoreConfigured => s3_objects'[filename] = File(body)
            /\ ~StoreConfigured => s3_objects' = s3_objects
            /\ \A key \in ObjectKeys \ {filename} : s3_objects'[key] = s3_objects[key]]_vars

\* A call with a store configured wrote its bytes to the file and to the
\* object of a; b has a file and no object, as before the call.
C31_Witness ==
    /\ transferred.pass = "save"
    /\ transferred.s3_client /\ transferred.s3_bucket # ""
    /\ transferred.path = <<"a">>
    /\ transferred.data = <<2>>
    /\ local_files[<<"a">>] = File(<<2>>)
    /\ s3_objects[<<"a">>] = File(<<2>>)
    /\ local_files[<<"b">>].exists /\ ~s3_objects[<<"b">>].exists

(***************************************************************************)
(* C32: a write to the store is size-compared: when an object of the       *)
(* length of the data is at the key, the write is skipped and the object   *)
(* stays as it is.                                                         *)
(***************************************************************************)
C32_SameLengthObjectIsKept ==
    [][(/\ SaveStep
        /\ s3_objects[transferred'.path].exists
        /\ Size(s3_objects[transferred'.path]) = Len(transferred'.data))
            => s3_objects'[transferred'.path] = s3_objects[transferred'.path]]_vars

(***************************************************************************)
(* run_watcher with dry_run.  SpecDry starts where main has built the      *)
(* FileTracker over a tracker file that is absent, cut off, or holds any   *)
(* mapping, and calls run_watcher(inbox_dir, tracker, dry_run=True); the   *)
(* sync client fills the inbox before and after the call.  The signal      *)
(* handlers are installed after the dry-run branch and are not part of it. *)
(***************************************************************************)
DryInit ==
    /\ LocalBase
    /\ pc = "main"
    /\ disk \in {Absent, Corrupt} \cup {Dumps(l) : l \in Ledgers}
    /\ processed = Load(disk)
    /\ ZoomIdle
    /\ SideIdle

\* A run_watcher that does not look at dry_run.
RunWatcherIgnoresDryRun(dry_run) ==
    /\ pc = "main"
    /\ pc' = "while"
    /\ UNCHANGED <<envVars, processed, running, new_files, idx, size1, ret, restarts,
                   histVars>>
    /\ UNCHANGED <<zoomVars, sideVars>>

\* run_watcher(inbox_dir, tracker, dry_run): with dry_run the scan is made,
\* its result logged, and the function returns; without it the loop begins.
RunWatcher(dry_run) ==
    /\ pc = "main"
    /\ IF dry_run
       THEN /\ new_files' = FindNewFiles(processed)
            /\ pc' = "stopped"
       ELSE /\ new_files' = new_files
            /\ pc' = "while"
    /\ UNCHANGED <<envVars, processed, running, idx, size1, ret, restarts, histVars>>
    /\ UNCHANGED <<zoomVars, sideVars>>

DryNext ==
    \/ EnvMkdir
    \/ \E i \in Identities : EnvWrite(i)
    \/ \E i \in Identities : EnvRemove(i)
    \/ EnvLink
    \/ RunWatcher(TRUE)

SpecDry == DryInit /\ [][DryNext]_vars

(***************************************************************************)
(* C33: run_watcher with dry_run lists the unprocessed files and returns:  *)
(* the call ends with new_files the result of one scan and the function    *)
(* returned; no processor is invoked, no stability sample is taken, the    *)
(* ledger and its file stay as they are, and the loop is never entered.    *)
(***************************************************************************)
C33_DryRunListsAndReturns ==
    /\ [][(pc = "main" /\ pc' # "main") =>
            (pc' = "stopped" /\ new_files' = FindNewFiles(processed))]_vars
    /\ [](pc \in {"main", "stopped"})
    /\ [](ret = "none" /\ completed = {} /\ size1 = Missing /\ skipped = {})
    /\ [][disk' = disk /\ processed' = processed]_vars

\* The dry run returned having listed a.MP4; b.mp4 is in the inbox and in
\* the ledger, and the tracker file holds the ledger as before.
C33_Witness ==
    /\ pc = "stopped"
    /\ new_files = <<1>>
    /\ size[2] # Missing
    /\ 2 \in DOMAIN processed
    /\ disk = Dumps(processed)
    /\ ret = "none" /\ completed = {}

(***************************************************************************)
(* The remote loop with a ledger whose answer can be lost.  The POST of    *)
(* mark_processed is applied by InsForge and its response does not arrive  *)
(* (the 30 s timeout of the client, a connection that breaks):             *)
(* client.post raises and the loop learns nothing of the row.              *)
(***************************************************************************)
MarkUnanswered ==
    /\ zpc = "mark"
    /\ zoom_processed' = zoom_processed \cup {meeting_uuid}
    /\ Raise("error")
    /\ UNCHANGED <<now, zoom_tokens, recordings, artifacts, save_file_fn, clientVars,
                   after, token, data, cycleLocals, botVars, zoomHistVars, localVars,
                   sideVars>>

ZoomLossyNext == ZoomNext \/ MarkUnanswered

SpecZoomLossy == ZoomInit /\ [][ZoomLossyNext]_vars

\* The loop of this run put the row of u into the remote ledger.
Marks(u) == u \notin zoom_processed /\ u \in zoom_processed'

(***************************************************************************)
(* C34: a uuid is marked in the remote ledger only after all its files,    *)
(* the mirror copies included when a mirror is given, were written; the    *)
(* transcript counter goes up by one only in the step in which a mark      *)
(* succeeds, and it equals the number of marks this run of the loop made.  *)
(***************************************************************************)
C34_CounterEqualsMarks ==
    /\ [][\A u \in Uuids : Marks(u) => artifacts[u] = AllFiles]_vars
    /\ [][zoom_transcript_count' # zoom_transcript_count =>
            /\ zoom_transcript_count' = zoom_transcript_count + 1
            /\ Marks(meeting_uuid)]_vars
    /\ [](zoom_transcript_count = Cardinality(zoom_processed))

\* The first part alone: a mark is made only with all files written, and
\* the counter only goes up in a step that makes a mark.
MarkFollowsWrites ==
    /\ [][\A u \in Uuids : Marks(u) => artifacts[u] = AllFiles]_vars
    /\ [][zoom_transcript_count' # zoom_transcript_count =>
            /\ zoom_transcript_count' = zoom_transcript_count + 1
            /\ Marks(meeting_uuid)]_vars
    /\ [](zoom_transcript_count <= Cardinality(zoom_processed))

\* The step that begins a cycle of the remote loop.
CycleBegins == zpc # "load" /\ zpc' = "load"

(***************************************************************************)
(* C35: a cycle of the remote loop begins only as a sleep of poll_interval *)
(* returns, and the sleep a cycle ends in, on whatever path, is left only  *)
(* into the next cycle (or by cancellation): between the starts of two     *)
(* cycles there is exactly one sleep, of the same length after an error as *)
(* after a cycle without one.                                              *)
(***************************************************************************)
C35_OneSleepPerCycle ==
    /\ [][CycleBegins => (zpc = "sleep" /\ now' = now + poll_interval)]_vars
    /\ [][(zpc = "sleep" /\ zpc' # "sleep") => zpc' \in {"load", "cancelled"}]_vars
    /\ [][(zpc = "except" /\ zpc' # "except") => zpc' = "sleep"]_vars
    /\ [][(zpc \in {"load", "list_req", "for"} /\ zpc' = "sleep") =>
            (exc' = "none" /\ now' = now)]_vars

\* A cycle that ended in an error has slept and the next cycle has begun, one
\* poll_interval after the start of the run.
C35_Witness ==
    /\ zpc = "load"
    /\ now = Frac + poll_interval
    /\ Len(recent_errors) = 1

(***************************************************************************)
(* C36: the list find_new_files returns holds each identity at most once,  *)
(* also when several directory entries resolve to one file.                *)
(***************************************************************************)
C36_ScanReturnsEachIdentityOnce ==
    \A j, k \in 1..Len(new_files) : new_files[j] = new_files[k] => j = k

(***************************************************************************)
(* C37: at whatever point of mark_processed the process ends, the tracker  *)
(* file loads as the mapping before the call or the mapping after it: the  *)
(* file never passes from holding a mapping to a content that does not     *)
(* load with every entry of that mapping.                                  *)
(***************************************************************************)
C37_TrackerFileKeepsEntries ==
    [][(disk.kind = "json" /\ disk' # disk) =>
          \A i \in DOMAIN disk.data :
              i \in DOMAIN Load(disk') /\ (i # cur => Load(disk')[i] = disk.data[i])]_vars

(***************************************************************************)
(* The directory of a meeting.  SpecDirs takes as its input a listing of   *)
(* two meetings with different uuids, each with any topic and any start    *)
(* date within the bounds, none of them in the remote ledger and both with *)
(* a transcript, and lets the loop write the files of each.  A string is   *)
(* the sequence of its characters.  response holds the listing,            *)
(* local_files[dir] the uuid in the metadata.json of directory dir, and    *)
(* transferred the uuids whose files were written.  The mirror prefix is   *)
(* made of the same date and the same sanitized topic as the directory.    *)
(***************************************************************************)
\* The characters of a topic: a letter, a character the first pattern
\* replaces, the character it is replaced by, and white space.
TopicChars == {"a", "/", "_", " "}

Topics == UNION {[1..n -> TopicChars] : n \in 0..MaxTopic}

\* start_time[:10] of the meetings.
Dates == {"2026-02-19", "2026-02-20"}

TOPIC_LIMIT == 100

\* re.sub(r'[<>:"/\\|?*]', '_', name)
ReplaceReserved(name) ==
    [k \in 1..Len(name) |-> IF name[k] = "/" THEN "_" ELSE name[k]]

\* name.strip()
RECURSIVE StripLeft(_)
StripLeft(name) ==
    IF name # <<>> /\ Head(name) = " " THEN StripLeft(Tail(name)) ELSE name

RECURSIVE StripRight(_)
StripRight(name) ==
    IF name # <<>> /\ name[Len(name)] = " "
        THEN StripRight(SubSeq(name, 1, Len(name) - 1))
        ELSE name

\* re.sub(r'\s+', '-', name): every run of white space becomes one hyphen.
RECURSIVE ReplaceSpace(_)
ReplaceSpace(name) ==
    IF name = <<>> THEN <<>>
    ELSE IF Head(name) = " " THEN <<"-">> \o ReplaceSpace(StripLeft(name))
    ELSE <<Head(name)>> \o ReplaceSpace(Tail(name))

Untitled == <<"u", "n", "t", "i", "t", "l", "e", "d">>

\* _sanitize_filename(name)
SanitizeFilename(name) ==
    LET hyphened == ReplaceSpace(StripRight(StripLeft(ReplaceReserved(name))))
        cut == SubSeq(hyphened, 1, Min(Len(hyphened), TOPIC_LIMIT))
    IN  IF cut = <<>> THEN Untitled ELSE cut

\* local_dir under data_dir / bot_name / "zoom", and the mirror prefix under
\* bot_name/zoom: date_str and safe_topic.
LocalDir(meeting) == <<meeting.start_time, SanitizeFilename(meeting.topic)>>

Meetings == [uuid : Uuids, topic : Topics, start_time : Dates]

DirsInit ==
    /\ LocalInit /\ ZoomIdle
    /\ TrackerIdle /\ ErrorsIdle
    /\ held = 0
    /\ \E first, second \in Meetings :
          /\ first.uuid = 1 /\ second.uuid = 2
          /\ response = [meetings |-> <<first, second>>]
    /\ local_files = <<>>
    /\ s3_objects = [key \in ObjectKeys |-> NoFile]
    /\ transferred = [pass |-> "poll", keys |-> {}]

\* The body of the for loop for the next meeting of the listing: mkdir with
\* exist_ok, then transcript.vtt and metadata.json written over what is there.
WriteMeeting ==
    /\ Cardinality(transferred.keys) < Len(response.meetings)
    /\ LET meeting == response.meetings[Cardinality(transferred.keys) + 1]
       IN  /\ local_files' = (LocalDir(meeting) :> meeting.uuid) @@ local_files
           /\ transferred' = [transferred EXCEPT !.keys = @ \cup {meeting.uuid}]
    /\ UNCHANGED <<s3_objects, trackerVars, listVars, calls, localVars, zoomVars>>

DirsNext == WriteMeeting

SpecDirs == DirsInit /\ [][DirsNext]_vars

(***************************************************************************)
(* C38: two meetings with different uuids are written to different         *)
(* directories: the files of a meeting that was written stay those of that *)
(* meeting when another meeting is written.                                *)
(***************************************************************************)
C38_EachMeetingKeepsItsDirectory ==
    \A k \in 1..Len(response.meetings) :
        response.meetings[k].uuid \in transferred.keys =>
            local_files[LocalDir(response.meetings[k])] = response.meetings[k].uuid

(***************************************************************************)
(* C39: with no token row stored (the disconnect handler deleted it), a    *)
(* row appears only by a step of the OAuth callback, never by a step of    *)
(* the poller, whose refresh may have read the row before the delete.      *)
(***************************************************************************)
C39_OnlyCallbackStoresAfterDisconnect ==
    [][(zoom_tokens = NoToken /\ zoom_tokens' # NoToken) => UNCHANGED pollVars]_vars

(***************************************************************************)
(* The files the processor writes.  SpecProducts is the local loop over an *)
(* inbox whose files are named: a name is the sequence of the parts its    *)
(* dots separate, <<"a", "MP4">> for a.MP4.  local_files is the set of the *)
(* names in the inbox, processed the ledger over names.  The processor is  *)
(* split at every write and removal of a file: process_single_file calls   *)
(* transcribe_video (the temporary audio file, the transcript JSON, the    *)
(* removal of the temporary file in "finally") and create_text_transcript. *)
(* The stability probe and the writing of the tracker file are not what    *)
(* the files of the processor depend on: every file is taken as stable and *)
(* every mark as saved.                                                    *)
(***************************************************************************)
InputNames == {<<"a", "MP4">>, <<"b", "wav">>}

\* The parts of the names, in the order of their strings.
PartOrder == <<"MP4", "a", "b", "json", "temp", "transcript", "txt", "wav">>

Rank(part) == CHOOSE i \in 1..Len(PartOrder) : PartOrder[i] = part

\* path1 < path2 for two paths of one directory.
RECURSIVE PathLess(_, _)
PathLess(n1, n2) ==
    IF n1 = <<>> THEN n2 # <<>>
    ELSE IF n2 = <<>> THEN FALSE
    ELSE IF Head(n1) = Head(n2) THEN PathLess(Tail(n1), Tail(n2))
    ELSE Rank(Head(n1)) < Rank(Head(n2))

\* sorted(...) of a set of paths.
SortedPaths(S) ==
    CHOOSE s \in [1..Cardinality(S) -> S] :
        /\ {s[k] : k \in 1..Cardinality(S)} = S
        /\ \A j, k \in 1..Cardinality(S) : j < k => PathLess(s[j], s[k])

\* Path(name).suffix.lower()
LowerSuffix(name) ==
    IF Len(name) < 2 THEN "" ELSE Lower("." \o name[Len(name)])

\* Path(name).with_suffix(suffix), the suffix given by its parts.
WithSuffix(name, suffix) == SubSeq(name, 1, Len(name) - 1) \o suffix

TempAudio(name) == WithSuffix(name, <<"temp", "wav">>)

TranscriptJson(name) == WithSuffix(name, <<"transcript", "json">>)

TranscriptTxt(name) == WithSuffix(name, <<"transcript", "txt">>)

\* find_new_files over the named inbox.
FindNewNamed(tracker) ==
    SortedPaths({name \in local_files :
                    /\ LowerSuffix(name) \in SUPPORTED_EXTENSIONS
                    /\ ~IsProcessed(tracker, name)})

ProductsInit ==
    /\ LocalBase
    /\ pc = "while"
    /\ processed = EmptyLedger
    /\ disk = Absent
    /\ ZoomIdle
    /\ TrackerIdle /\ ListIdle /\ ErrorsIdle
    /\ local_files \in (SUBSET InputNames) \ {{}}
    /\ s3_objects = [key \in ObjectKeys |-> NoFile]
    /\ transferred = NoPass

productFrame == <<inbox, size, link, disk, running, size1, histVars, s3_objects,
                  transferred, trackerVars, listVars, calls, zoomVars>>

ProductScan ==
    /\ pc = "while"
    /\ new_files' = FindNewNamed(processed)
    /\ idx' = 1
    /\ pc' = "for"
    /\ UNCHANGED <<local_files, processed, ret, restarts, productFrame>>

ProductForEnd ==
    /\ pc = "for"
    /\ idx > Len(new_files)
    /\ new_files # <<>>
    /\ pc' = "while"
    /\ new_files' = <<>>
    /\ idx' = 1
    /\ UNCHANGED <<local_files, processed, ret, restarts, productFrame>>

\* transcribe_video: the cached transcript is returned, or the audio is
\* written to the temporary file.
ExtractAudio ==
    /\ pc = "for"
    /\ idx <= Len(new_files)
    /\ IF TranscriptJson(cur) \in local_files
       THEN pc' = "text" /\ UNCHANGED local_files
       ELSE pc' = "transcribe" /\ local_files' = local_files \cup {TempAudio(cur)}
    /\ UNCHANGED <<new_files, idx, processed, ret, restarts, productFrame>>

\* The transcription returns and the transcript JSON is written, or an
\* exception is raised.
Transcribe ==
    /\ pc = "transcribe"
    /\ \/ /\ local_files' = local_files \cup {TranscriptJson(cur)}
          /\ ret' = "true"
       \/ /\ local_files' = local_files
          /\ ret' = "false"
    /\ pc' = "finally"
    /\ UNCHANGED <<new_files, idx, processed, restarts, productFrame>>

\* finally: the temporary file is removed.  Then process_single_file goes on
\* to the text transcript, or catches the exception and returns False.
Finally ==
    /\ pc = "finally"
    /\ local_files' = local_files \ {TempAudio(cur)}
    /\ pc' = IF ret = "true" THEN "text" ELSE "mark_try"
    /\ UNCHANGED <<new_files, idx, processed, ret, restarts, productFrame>>

\* create_text_transcript, unless the text transcript is there.
WriteText ==
    /\ pc = "text"
    /\ local_files' = local_files \cup {TranscriptTxt(cur)}
    /\ ret' = "true"
    /\ pc' = "mark_try"
    /\ UNCHANGED <<new_files, idx, processed, restarts, productFrame>>

\* tracker.mark_processed(filepath, success)
ProductMark ==
    /\ pc = "mark_try"
    /\ processed' = SetEntry(processed, cur, ret = "true")
    /\ ret' = "none"
    /\ idx' = idx + 1
    /\ pc' = "for"
    /\ UNCHANGED <<local_files, new_files, restarts, productFrame>>

\* The process ends abruptly at any point (no "finally" runs) and is started
\* again with the ledger as it was saved.
ProductCrash ==
    /\ pc # "dead"
    /\ restarts < MaxRestarts
    /\ pc' = "dead"
    /\ new_files' = <<>>
    /\ idx' = 1
    /\ ret' = "none"
    /\ UNCHANGED <<local_files, processed, restarts, productFrame>>

ProductRestart ==
    /\ pc = "dead"
    /\ restarts' = restarts + 1
    /\ pc' = "while"
    /\ UNCHANGED <<local_files, new_files, idx, processed, ret, productFrame>>

ProductsNext ==
    \/ ProductScan
    \/ ProductForEnd
    \/ ExtractAudio
    \/ Transcribe
    \/ Finally
    \/ WriteText
    \/ ProductMark
    \/ ProductCrash
    \/ ProductRestart

SpecProducts == ProductsInit /\ [][ProductsNext]_vars

(***************************************************************************)
(* C40: no scan of the local loop returns a file the processor wrote (a    *)
(* transcript or the temporary audio file next to the input), also after   *)
(* a crash during processing and a restart: every candidate is one of the  *)
(* files put into the inbox.                                               *)
(***************************************************************************)
C40_NoCandidateIsProcessorOutput ==
    \A k \in 1..Len(new_files) : new_files[k] \in InputNames

\* The same without a crash: the temporary file is removed before the next
\* scan and the transcripts have no supported suffix.
NoCrashNoOutputCandidate ==
    restarts = 0 /\ pc # "dead" => C40_NoCandidateIsProcessorOutput

====
